---------------------------- MODULE Spec2Model ----------------------------
(***************************************************************************)
(* A model of bing_rewards/daily_activities.py: the dashboard detectors,   *)
(* the activity classifier, the four type handlers and the orchestrator    *)
(* run_daily_activities.                                                   *)
(*                                                                         *)
(* Text is a sequence of one-character strings, so that strip, slicing,    *)
(* lower-casing, splitting and substring search are computed as Python     *)
(* computes them.  The Page Driver (Playwright) is the environment: the    *)
(* outcome of every query, click and navigation is a nondeterministic      *)
(* choice, including the choice to raise.                                  *)
(***************************************************************************)
EXTENDS Integers, Sequences, FiniteSets, TLC

VARIABLES
    pc,          \* position of the run (run_daily_activities and its callees)
    dryrun,      \* run_daily_activities argument
    pw,          \* async_playwright() manager: "none" | "started" | "stopped"
    ctx,         \* persistent browser context: "none" | "open" | "closed",
                 \* or "close_failed" when context.close() raised
    checks,      \* results of the _check_login calls made so far
    dom,         \* the dashboard DOM the detectors look at
    detected,    \* detect_activities has returned
    primary,     \* what detect_activities returned
    altUsed,     \* _detect_alternative was called
    activities,  \* the local `activities` of run_daily_activities
    idx,         \* 1-based position of `act` in the for loop (0 before it)
    completed,   \* the local `completed` tally
    reported,    \* the (completed, total) pair printed by the summary
    ret,         \* value returned by run_daily_activities, or a marker
    login,       \* what _check_login observes (when the gate is checked alone)
    signalled,   \* input() returned: ENTER was typed during the login wait
    started,     \* loop positions whose complete_activity call has started
    handled,     \* complete_activity calls that have returned to the loop
    backRaised,  \* the navigation back to the dashboard that was just made
                 \* raised (until the next activity's navigation starts)
    today,       \* date.today(), as a day number of the calendar window
    file,        \* search_history.json: readable or not, and the dict it holds
    hs,          \* a caller of search_history: its arguments, results, position
    kwcfg,       \* what daily_keyword_generator is given: the keyword files,
                 \* the two shuffles of today's seed, record_history
    gens,        \* the daily_keyword_generator instances
    acct,        \* a call of account_selection: its options, the browser
                 \* process it opened, the prompt loop, what it returned
    page,        \* markers the classifier sees on the activity page
    atype,       \* activity_type in complete_activity
    q,           \* loop variable of the current handler
    optRounds,   \* iterations of the current handler that found options
    optClicks,   \* option clicks issued by the current handler
    startClicks, \* start-button clicks issued by the current handler
    waits,       \* _wait_for_page_load calls made by the current handler
    scrolls,     \* page.evaluate scroll calls made by the current handler
    sawComplete, \* the current handler's completion check found a marker
    noOpts,      \* an iteration of the current handler found no option element
    missed,      \* an option click of the current handler raised (swallowed)
    failed,      \* which Page Driver call raised in the current activity
    success      \* complete_activity's return value for the current activity

vars == << pc, today, file, hs, kwcfg, acct, gens, backRaised, login, signalled, started, handled, dryrun, pw, ctx, checks, dom, detected, primary, altUsed,
           activities, idx, completed, reported, ret, page, atype, q, optRounds,
           optClicks, startClicks, waits, scrolls, sawComplete, noOpts,
           missed, failed, success >>

\* None, as get_attribute returns it for an absent attribute: a value no text equals
NoValue == << "None" >>

-----------------------------------------------------------------------------
(* Bounds of the model *)

\* cards matched by one selector strategy of the primary detector
MaxCards == 2
\* hyperlinks on the dashboard scanned by the alternative detector
MaxLinks == 2
\* cards on the dashboard of a whole run
MaxActs == 2

-----------------------------------------------------------------------------
(* Text *)

Whitespace == {" ", "\t", "\n"}
Digits == {"0", "1", "2", "3", "4", "5", "6", "7", "8", "9"}

\* n copies of the text s
Rep(s, n) == [i \in 1..(n * Len(s)) |-> s[((i - 1) % Len(s)) + 1]]

\* str.lstrip() / str.rstrip() / str.strip() with no argument
RECURSIVE lstrip(_)
lstrip(s) ==
    IF s # << >> /\ Head(s) \in Whitespace THEN lstrip(Tail(s)) ELSE s

RECURSIVE rstrip(_)
rstrip(s) ==
    IF s # << >> /\ s[Len(s)] \in Whitespace
    THEN rstrip(SubSeq(s, 1, Len(s) - 1))
    ELSE s

strip(s) == rstrip(lstrip(s))

\* the slice s[:n]
SliceTo(s, n) == IF Len(s) <= n THEN s ELSE SubSeq(s, 1, n)

\* the slice s[n:] (n counted from 0)
SliceFrom(s, n) == IF Len(s) <= n THEN << >> ELSE SubSeq(s, n + 1, Len(s))

\* str.lower() on the letters the model uses
LowerChar(c) ==
    CASE c = "Q" -> "q"
      [] c = "D" -> "d"
      [] c = "P" -> "p"
      [] c = "T" -> "t"
      [] c = "R" -> "r"
      [] c = "M" -> "m"
      [] c = "S" -> "s"
      [] c = "E" -> "e"
      [] c = "H" -> "h"
      [] c = "A" -> "a"
      [] c = "X" -> "x"
      [] c = "I" -> "i"
      [] c = "N" -> "n"
      [] OTHER -> c

lower(s) == [i \in 1..Len(s) |-> LowerChar(s[i])]

\* the `in` operator on strings: needle in hay
contains(hay, needle) ==
    \E i \in 1..(Len(hay) - Len(needle) + 1) :
        SubSeq(hay, i, i + Len(needle) - 1) = needle

\* str.startswith
startswith(s, prefix) ==
    Len(s) >= Len(prefix) /\ SubSeq(s, 1, Len(prefix)) = prefix

\* str.isdigit(): false on the empty string
isdigit(s) == s # << >> /\ \A i \in 1..Len(s) : s[i] \in Digits

\* str.split() with no argument: the maximal runs of non-whitespace, in order
WordStarts(s) ==
    { i \in 1..Len(s) : s[i] \notin Whitespace /\ (i = 1 \/ s[i - 1] \in Whitespace) }

WordEnd(s, i) ==
    CHOOSE j \in i..Len(s) :
        /\ \A k \in i..j : s[k] \notin Whitespace
        /\ (j = Len(s) \/ s[j + 1] \in Whitespace)

split(s) ==
    LET starts == WordStarts(s)
        nth(k) == CHOOSE i \in starts : Cardinality({ j \in starts : j < i }) = k - 1
    IN  [k \in 1..Cardinality(starts) |-> SubSeq(s, nth(k), WordEnd(s, nth(k)))]

\* `x or ""` applied to what get_attribute returned (None when absent)
OrEmpty(x) == IF x = NoValue THEN << >> ELSE x

-----------------------------------------------------------------------------
(* Dashboard DOM *)

(***************************************************************************)
(* A card is what the primary detector can observe of one matched element: *)
(* whether each nested sub-selector finds an element, the texts and the    *)
(* attributes it would read, and whether one of those reads raises.        *)
(* A link is what the alternative detector can observe of one a[href].     *)
(* The DOM gives the elements each selector strategy matches, in document  *)
(* order.                                                                  *)
(***************************************************************************)
Card(titleEl, titleText, text, pointsEl, pointsText, linkEl, linkHref, href, checkEl, raises) ==
    [ titleEl |-> titleEl, titleText |-> titleText, text |-> text,
      pointsEl |-> pointsEl, pointsText |-> pointsText,
      linkEl |-> linkEl, linkHref |-> linkHref, href |-> href,
      checkEl |-> checkEl, raises |-> raises ]

Link(href, text, raises) == [ href |-> href, text |-> text, raises |-> raises ]

Dom(mee, cardlike, anchors, links, linksRaise) ==
    [ mee |-> mee, cardlike |-> cardlike, anchors |-> anchors,
      links |-> links, linksRaise |-> linksRaise ]

EmptyDom == Dom(<< >>, << >>, << >>, << >>, FALSE)

\* class Activity
Activity(title, points, url, done) ==
    [ title |-> title, points |-> points, url |-> url, completed |-> done ]

-----------------------------------------------------------------------------
(* search_history.py *)

\* the calendar window of the model: day 0 is 2025-12-20, so that the window
\* runs over the end of a month and of a year
WindowYear == 2025
WindowMonth == 12
WindowDay == 20
MonthLen == 31

YearOf(n) == IF WindowDay + n <= MonthLen THEN WindowYear ELSE WindowYear + 1
MonthOf(n) == IF WindowDay + n <= MonthLen THEN WindowMonth ELSE 1
DayOf(n) == IF WindowDay + n <= MonthLen THEN WindowDay + n ELSE WindowDay + n - MonthLen

DigitChars == <<"0", "1", "2", "3", "4", "5", "6", "7", "8", "9">>

\* "%02d" and "%04d"
TwoDigits(n) == << DigitChars[((n \div 10) % 10) + 1], DigitChars[(n % 10) + 1] >>
FourDigits(n) == TwoDigits(n \div 100) \o TwoDigits(n % 100)

\* date.isoformat(): YYYY-MM-DD
isoformat(n) ==
    FourDigits(YearOf(n)) \o <<"-">> \o TwoDigits(MonthOf(n)) \o <<"-">>
        \o TwoDigits(DayOf(n))

\* the code point of a character of a date key
CodePoint(c) ==
    IF c = "-" THEN 45
    ELSE 48 + (CHOOSE k \in 0..9 : DigitChars[k + 1] = c)

\* str < str and str >= str: by code points, a proper prefix being smaller
RECURSIVE StrLess(_, _)
StrLess(a, b) ==
    IF b = << >> THEN FALSE
    ELSE IF a = << >> THEN TRUE
    ELSE IF Head(a) # Head(b) THEN CodePoint(Head(a)) < CodePoint(Head(b))
    ELSE StrLess(Tail(a), Tail(b))

StrGe(a, b) == ~StrLess(a, b)

\* x in list
InList(x, l) == \E i \in 1..Len(l) : l[i] = x

\* history[key] = value on a dict
SetKey(h, key, value) ==
    [k \in (DOMAIN h) \cup {key} |-> IF k = key THEN value ELSE h[k]]

\* the history file is missing or does not decode
NoFile == [readable |-> FALSE, data |-> << >>]

\* a file holding the dict h
FileOf(h) == [readable |-> TRUE, data |-> h]

\* lines 39-54: {} when the file is missing or cannot be read or decoded
load_history(f) == IF f.readable THEN f.data ELSE << >>

\* lines 57-74: the outcomes of save_history(h) on the file f: written; not
\* opened (IOError, the file as it was); or opened and cut short by an IOError
SaveOutcomes(f, h) ==
    { [ok |-> TRUE, file |-> FileOf(h)],
      [ok |-> FALSE, file |-> f],
      [ok |-> FALSE, file |-> NoFile] }

\* a cleanup that compares the day of the month alone
cleanup_old_history_ByDay(h, days, day) ==
    [k \in { x \in DOMAIN h :
               StrGe(SubSeq(x, 9, 10), SubSeq(isoformat(day - days), 9, 10)) } |-> h[k]]

\* lines 77-96: keep the keys that are >= the cutoff date's key, as strings
cleanup_old_history(h, days, day) ==
    [k \in { x \in DOMAIN h : StrGe(x, isoformat(day - days)) } |-> h[k]]

\* lines 114-116: the set of all searches of the history
RecentOf(h) == UNION { { h[k][i] : i \in 1..Len(h[k]) } : k \in DOMAIN h }

\* lines 108-109: the history get_recent_searches works on
RecentHistory(f, days, day) == cleanup_old_history(load_history(f), days, day)

\* a lookup that leaves the file's history as it found it
SavedByLookup_ReadOnly(f, days, day) == load_history(f)

\* lines 108-112: the history get_recent_searches passes to save_history
SavedByLookup(f, days, day) == RecentHistory(f, days, day)

\* an add_search that records the term as it was given
Normalized_AsGiven(term) == term

\* line 137 and line 156: search_term.strip().lower()
Normalized(term) == lower(strip(term))

\* lines 130-140: the history add_search saves
AddedHistory(f, term, day) ==
    LET h == load_history(f)
        key == isoformat(day)
        h1 == IF key \in DOMAIN h THEN h ELSE SetKey(h, key, << >>)
    IN  IF InList(Normalized(term), h1[key]) THEN h1
        ELSE SetKey(h1, key, Append(h1[key], Normalized(term)))

\* the rolling window of is_search_used_recently's default and of the callers
HistoryDays == 7

\* search terms
TermTest == <<"T","e","s","t"," ","1">>
TermTestUpper == <<"T","E","S","T"," ","1">>
TermTestPadded == <<" ","\t","t","e","s","t"," ","1"," ","\n">>
TermTestLower == <<"t","e","s","t"," ","1">>
TermTestWide == <<"t","e","s","t"," "," ","1">>
TermBlank == <<" ">>

TermCatalogue ==
    {TermTest, TermTestUpper, TermTestPadded, TermTestLower, TermTestWide, TermBlank}

\* the values of date.today() of the model: 2025-12-30, and 2026-01-03 whose
\* 7-day window starts in the year before
FirstToday == 10
SecondToday == 14
Todays == {FirstToday, SecondToday}

\* lists a history holds for one day
DayLists == { << >>, << TermTestLower >>, << TermTestWide, TermTestLower >> }

\* how many days before today the date keys of a prior history lie: today,
\* the first day of the 7-day window, and the day before it
KeyAges == {0, HistoryDays, HistoryDays + 1}

\* the history files add_search can find
Histories(day) ==
    UNION { [ { isoformat(day - a) : a \in ages } -> DayLists ] : ages \in SUBSET KeyAges }

Files(day) == { NoFile } \cup { FileOf(h) : h \in Histories(day) }

\* no caller of the history is running
NoCaller ==
    [at |-> "idle", term |-> << >>, probe |-> << >>, added |-> "none", used |-> "none"]

-----------------------------------------------------------------------------
(* daily_keywords.py *)

KwHalo == <<"H","a","l","o">>
KwHaloLower == <<"h","a","l","o">>
KwDoom == <<"d","o","o","m">>

\* lines 218-224: the emergency keywords
EmergencyKeywords ==
    << <<"g","a","m","i","n","g"," ","n","e","w","s"," ","t","o","d","a","y">>,
       <<"v","i","d","e","o"," ","g","a","m","e"," ","r","e","v","i","e","w","s">>,
       <<"e","s","p","o","r","t","s"," ","t","o","u","r","n","a","m","e","n","t">>,
       <<"n","e","w"," ","g","a","m","e"," ","r","e","l","e","a","s","e","s">>,
       <<"g","a","m","i","n","g"," ","t","i","p","s"," ","a","n","d"," ","t","r","i","c","k","s">> >>

\* the keyword files as load_gaming_keywords and load_fallback_keywords read
\* them (each line stripped): both unreadable or empty; a keyword in both
\* files in two spellings; a keyword that a history holds
KeywordFiles ==
    { [gaming |-> << >>, fallback |-> << >>],
      [gaming |-> << KwHalo, KwDoom >>, fallback |-> << KwHaloLower >>],
      [gaming |-> << KwDoom, TermTestLower >>, fallback |-> << KwHaloLower >>] }

\* lines 210-224
all_keywords(cfg) ==
    IF cfg.gaming \o cfg.fallback = << >> THEN EmergencyKeywords
    ELSE cfg.gaming \o cfg.fallback

\* the orders rng.shuffle can leave a list of n elements in: every order of
\* a list of up to FullShuffleLen elements, three orders of a longer one
FullShuffleLen == 3

Shuffles(n) ==
    IF n <= FullShuffleLen
    THEN { p \in [1..n -> 1..n] : \A i, j \in 1..n : p[i] = p[j] => i = j }
    ELSE { [i \in 1..n |-> i], [i \in 1..n |-> n + 1 - i], [i \in 1..n |-> ((i + 1) % n) + 1] }

\* the list in the order p
Shuffled(list, p) == [i \in 1..Len(list) |-> list[p[i]]]

\* history files a generator can find: none; a keyword used today and another
\* one 8 days ago; two keywords used on the first day of the window
KeywordHistories(day) ==
    { NoFile,
      FileOf(SetKey(SetKey(<< >>, isoformat(day), << KwHaloLower >>),
                    isoformat(day - (HistoryDays + 1)), << KwDoom >>)),
      FileOf(SetKey(<< >>, isoformat(day - HistoryDays), << KwDoom, TermTestLower >>)) }

\* what a generator is made from
KeywordConfigs(day) ==
    UNION { { [gaming |-> k.gaming, fallback |-> k.fallback, first |-> p1,
               second |-> p2, record |-> r, file0 |-> f] :
                r \in BOOLEAN, f \in KeywordHistories(day),
                p1 \in Shuffles(Len(all_keywords(k))),
                p2 \in Shuffles(Len(all_keywords(k))) } : k \in KeywordFiles }

NoKeywords ==
    [gaming |-> << >>, fallback |-> << >>, first |-> << >>, second |-> << >>,
     record |-> FALSE, file0 |-> NoFile]

\* a generator object whose body has not started
NewGenerator ==
    [stage |-> "new", pos |-> 1, used |-> {}, recent |-> {}, out |-> << >>]

Generators == {1, 2}

NoGenerators == [g \in Generators |-> NewGenerator]

\* an rng that is seeded differently in each generator
FirstShuffle_PerInstance(g) ==
    IF g = 1 THEN kwcfg.first
    ELSE [i \in 1..Len(kwcfg.first) |-> kwcfg.first[Len(kwcfg.first) + 1 - i]]

\* lines 227-228: rng = random.Random(get_daily_seed())
FirstShuffle(g) == kwcfg.first

\* lines 231-232: shuffled after the first shuffle
FirstOrder(g) == Shuffled(all_keywords(kwcfg), FirstShuffle(g))

\* lines 257-258: the same list shuffled again by Random(seed + 1000)
SecondOrder(g) == Shuffled(FirstOrder(g), kwcfg.second)

\* a second pass that skips nothing
SecondPassSkips_Never(norm, used) == FALSE

\* lines 263-264: if normalized in session_used: continue
SecondPassSkips(norm, used) == norm \in used
\* a first pass that looks at the session alone, not at the history
FirstPassSkips_SessionOnly(norm, used, recent) == norm \in used

\* lines 244-247: the first pass skips what the session or the history holds
FirstPassSkips(norm, used, recent) == norm \in used \/ norm \in recent

\* the first position from `from` on that a pass does not skip, 0 for none
FirstPassNext(list, from, used, recent) ==
    LET ok == { i \in from..Len(list) : ~FirstPassSkips(Normalized(list[i]), used, recent) }
    IN  IF ok = {} THEN 0 ELSE CHOOSE i \in ok : \A j \in ok : i <= j

SecondPassNext(list, from, used) ==
    LET ok == { i \in from..Len(list) : ~SecondPassSkips(Normalized(list[i]), used) }
    IN  IF ok = {} THEN 0 ELSE CHOOSE i \in ok : \A j \in ok : i <= j

\* lines 241-276: where the generator g, resumed at position `from` of the
\* pass `stage`, yields next: the pass, the position and whether the keyword
\* is new to the session (added to session_used and, if asked, recorded)
NextYield(g, stage, from, used, recent) ==
    LET i1 == IF stage = "first"
              THEN FirstPassNext(FirstOrder(g), from, used, recent) ELSE 0
        i2 == IF stage = "again" THEN 0
              ELSE SecondPassNext(SecondOrder(g),
                                  IF stage = "second" THEN from ELSE 1, used)
        n == Len(SecondOrder(g))
        i3 == IF stage = "again" /\ from <= n THEN from ELSE 1
    IN  IF i1 > 0
        THEN [stage |-> "first", at |-> i1, keyword |-> FirstOrder(g)[i1], fresh |-> TRUE]
        ELSE IF i2 > 0
        THEN [stage |-> "second", at |-> i2, keyword |-> SecondOrder(g)[i2], fresh |-> TRUE]
        ELSE [stage |-> "again", at |-> i3, keyword |-> SecondOrder(g)[i3], fresh |-> FALSE]

\* values drawn from one generator
MaxDraws == 6

-----------------------------------------------------------------------------
(* detect_activities *)

\* a cascade that gathers the elements of all three strategies
SelectCards_All(d) == d.mee \o d.cardlike \o d.anchors

\* the cascade of selector strategies: the first that yields any elements
SelectCards(d) ==
    IF d.mee # << >> THEN d.mee
    ELSE IF d.cardlike # << >> THEN d.cardlike
    ELSE d.anchors

\* title: the nested title element's text, else the card's own text cut to 80
TitleCap == 80

ExtractTitle(card) ==
    LET t1 == IF card.titleEl THEN strip(card.titleText) ELSE << >>
    IN  IF t1 # << >> THEN t1 ELSE SliceTo(strip(card.text), TitleCap)

MinTitleLen == 3

\* a title test that forgets the minimum length
TitleUsable_NonEmpty(title) == title # << >>

TitleUsable(title) == title # << >> /\ Len(title) >= MinTitleLen

ExtractPoints(card) ==
    IF card.pointsEl THEN strip(card.pointsText) ELSE << >>

\* url: the nested anchor's href when there is a nested anchor, else the
\* card's own href
ExtractUrl(card) ==
    IF card.linkEl THEN OrEmpty(card.linkHref) ELSE OrEmpty(card.href)

ExtractCompleted(card) == card.checkEl

\* an append condition that forgets the completion marker
KeepCard_IgnoreDone(url, done) == url # << >>

\* the condition under which the card is appended
KeepCard(url, done) == url # << >> /\ ~done

\* the body of the for loop for one card: the activities it appends
DetectCard(card) ==
    IF card.raises THEN << >>
    ELSE LET title == ExtractTitle(card)
             url == ExtractUrl(card)
             done == ExtractCompleted(card)
         IN  IF ~TitleUsable(title) THEN << >>
             ELSE IF KeepCard(url, done)
                  THEN << Activity(title, ExtractPoints(card), url, done) >>
                  ELSE << >>

\* a card loop that an extraction error ends: the cards after the failing
\* one are not scanned
RECURSIVE DetectCards_AbortOnError(_)
DetectCards_AbortOnError(cards) ==
    IF cards = << >> THEN << >>
    ELSE IF Head(cards).raises THEN << >>
    ELSE DetectCard(Head(cards)) \o DetectCards_AbortOnError(Tail(cards))

RECURSIVE DetectCards(_)
DetectCards(cards) ==
    IF cards = << >> THEN << >>
    ELSE DetectCard(Head(cards)) \o DetectCards(Tail(cards))

\* a detector that returns nothing on a dashboard it has already scanned
detect_activities_Once(d) ==
    IF detected THEN << >> ELSE DetectCards(SelectCards(d))

detect_activities(d) == DetectCards(SelectCards(d))

-----------------------------------------------------------------------------
(* _detect_alternative *)

MinLinkText == 5
MaxLinkText == 200

reward_indicators ==
    { <<"q","u","i","z">>, <<"p","o","l","l">>,
      <<"t","r","i","v","i","a">>, <<"p","u","z","z","l","e">>,
      <<"+","5">>, <<"+","1","0">>, <<"+","1","5">>, <<"+","2","0">>,
      <<"+","3","0">>, <<"+","5","0">>,
      <<"d","a","i","l","y">>, <<"c","h","a","l","l","e","n","g","e">> }

LinkTextOk(text) ==
    ~(text = << >> \/ Len(text) < MinLinkText \/ Len(text) > MaxLinkText)

is_reward(text, href) ==
    \E ind \in reward_indicators :
        contains(lower(text), ind) \/ contains(lower(href), ind)

\* the first word of the form "+" digits, or ""
RECURSIVE FirstPoints(_)
FirstPoints(words) ==
    IF words = << >> THEN << >>
    ELSE LET word == Head(words)
         IN  IF startswith(word, <<"+">>) /\ isdigit(SliceFrom(word, 1))
             THEN word
             ELSE FirstPoints(Tail(words))
\* a points parser that takes the first word starting with "+", digits or not
ParsePoints_AnyPlus(text) ==
    LET Plus(word) == startswith(word, <<"+">>)
        found == SelectSeq(split(text), Plus)
    IN  IF found = << >> THEN << >> ELSE Head(found)

ParsePoints(text) == FirstPoints(split(text))

\* Activity(title=..., points=..., url=...): completed takes its default
AltActivity(text, points, href) ==
    Activity(SliceTo(text, TitleCap), points, href, FALSE)

\* the body of the for loop for one link: the activities it appends
DetectLink(link) ==
    IF link.raises THEN << >>
    ELSE LET href == OrEmpty(link.href)
             text == strip(link.text)
         IN  IF ~LinkTextOk(text) THEN << >>
             ELSE IF is_reward(text, href) /\ href # << >>
                  THEN << AltActivity(text, ParsePoints(text), href) >>
                  ELSE << >>

RECURSIVE DetectLinks(_)
DetectLinks(links) ==
    IF links = << >> THEN << >>
    ELSE DetectLink(Head(links)) \o DetectLinks(Tail(links))

_detect_alternative(d) ==
    IF d.linksRaise THEN << >> ELSE DetectLinks(d.links)

-----------------------------------------------------------------------------
(* Dashboards the detectors are run on *)

TxtEmpty == << >>
TxtBlank == <<" "," ">>
TxtAb == <<"a","b">>
TxtAbc == <<" ","a","b","c","\n">>
TxtDailyQuiz == <<" ","D","a","i","l","y"," ","Q","u","i","z"," ">>
TxtPlus10 == <<" ","+","1","0"," ">>
\* longer than TitleCap once stripped
TxtLong == <<" ">> \o Rep(<<"a">>, TitleCap + 1) \o <<" ">>
UrlQuiz == <<"/","q","u","i","z","/","1">>
UrlAbs == <<"h","t","t","p",":","/","/","b",".","c","o","m","/","p">>
UrlPlain == <<"/","a","b","o","u","t">>

GoodCard == Card(TRUE, TxtDailyQuiz, TxtAbc, TRUE, TxtPlus10, TRUE, UrlQuiz, NoValue, FALSE, FALSE)

\* GoodCard with every way its title can be extracted: the nested title
\* element's text, or the card's own text when that is absent or blank
TitleCards ==
    { Card(TRUE, tt, TxtAbc, FALSE, TxtEmpty, TRUE, UrlQuiz, NoValue, FALSE, FALSE) :
        tt \in {TxtBlank, TxtAb, TxtDailyQuiz} }
    \cup { Card(FALSE, TxtEmpty, tx, FALSE, TxtEmpty, TRUE, UrlQuiz, NoValue, FALSE, FALSE) :
             tx \in {TxtEmpty, TxtAb, TxtAbc, TxtLong} }
    \cup { Card(TRUE, TxtBlank, TxtLong, FALSE, TxtEmpty, TRUE, UrlQuiz, NoValue, FALSE, FALSE) }

\* GoodCard with every way its url can be extracted: the nested anchor's href,
\* or the card's own href when there is no nested anchor
UrlCards ==
    { Card(TRUE, TxtDailyQuiz, TxtAbc, TRUE, TxtPlus10, TRUE, lh, oh, FALSE, FALSE) :
        lh \in {NoValue, TxtEmpty, UrlQuiz}, oh \in {NoValue, UrlAbs} }
    \cup { Card(TRUE, TxtDailyQuiz, TxtAbc, TRUE, TxtPlus10, FALSE, NoValue, oh, FALSE, FALSE) :
             oh \in {NoValue, UrlAbs} }

\* GoodCard, with or without a url, completed or not, raising or not
MarkCards ==
    { Card(TRUE, TxtDailyQuiz, TxtAbc, TRUE, TxtPlus10, TRUE, lh, NoValue, ck, rz) :
        lh \in {TxtEmpty, UrlQuiz}, ck \in BOOLEAN, rz \in BOOLEAN }

CardCatalogue == {GoodCard} \cup TitleCards \cup UrlCards \cup MarkCards

TxtQuizShort == <<" "," ","q","u","i","z"," ">>
TxtHello == <<"h","e","l","l","o"," ","w","o","r","l","d">>
TxtDailyPts == <<"D","a","i","l","y"," ","+","1","0"," ","g","o">>
TxtSecondPts == <<"Q","u","i","z"," ","+","5","x","\t","+","3","0"," ","+","2","0">>
TxtNoDigits == <<"P","o","l","l"," ","+"," ","n","o","w">>
\* exactly MaxLinkText characters, and one more
TxtQuiz200 == <<"q","u","i","z"," ">> \o Rep(<<"a">>, MaxLinkText - 5)
TxtQuiz201 == <<"q","u","i","z"," ">> \o Rep(<<"a">>, MaxLinkText - 4)

GoodLink == Link(UrlPlain, TxtDailyPts, FALSE)

\* GoodLink with every href, raising or not; every text with a plain href;
\* a text without indicator with an href that has one
LinkCatalogue ==
    { Link(h, TxtDailyPts, rz) : h \in {NoValue, TxtEmpty, UrlPlain}, rz \in BOOLEAN }
    \cup { Link(UrlPlain, tx, FALSE) :
             tx \in {TxtEmpty, TxtQuizShort, TxtHello, TxtSecondPts,
                     TxtNoDigits, TxtQuiz200, TxtQuiz201} }
    \cup { Link(UrlQuiz, TxtHello, FALSE) }

\* the sequences over S of length at most n
RECURSIVE SeqsUpTo(_, _)
SeqsUpTo(S, n) ==
    IF n = 0 THEN { << >> }
    ELSE LET shorter == SeqsUpTo(S, n - 1)
         IN  shorter \cup { Append(t, x) : t \in { u \in shorter : Len(u) = n - 1 }, x \in S }

\* dashboards whose cards are matched by exactly one strategy, the later
\* strategies matching one more good card or nothing
CardDoms ==
    { Dom(IF k = 1 THEN cs ELSE << >>,
          IF k = 2 THEN cs ELSE IF k < 2 THEN later ELSE << >>,
          IF k = 3 THEN cs ELSE IF k < 3 THEN later ELSE << >>,
          << GoodLink >>, FALSE) :
        k \in 1..3, cs \in SeqsUpTo(CardCatalogue, MaxCards),
        later \in { << >>, << GoodCard >> } }

\* dashboards whose cards yield nothing, with every list of hyperlinks
LinkDoms ==
    { Dom(cs, << >>, << >>, ls, lr) :
        cs \in { << >>, << Card(TRUE, TxtDailyQuiz, TxtAbc, TRUE, TxtPlus10, TRUE, UrlQuiz, NoValue, TRUE, FALSE) >> },
        ls \in SeqsUpTo(LinkCatalogue, MaxLinks), lr \in BOOLEAN }

DetectDoms == CardDoms \cup LinkDoms

\* dashboards of a whole run: cards pending or completed and one rewarding
\* hyperlink, or nothing at all
RunCards ==
    { Card(TRUE, TxtDailyQuiz, TxtAbc, TRUE, TxtPlus10, TRUE, UrlQuiz, NoValue, ck, FALSE) :
        ck \in BOOLEAN }

RunDoms ==
    { EmptyDom } \cup
    { Dom(cs, << >>, << >>, << GoodLink >>, FALSE) : cs \in SeqsUpTo(RunCards, MaxActs) }

-----------------------------------------------------------------------------
(* detect_activity_type *)

ActivityTypes == {"quiz", "poll", "trivia", "click_only"}

\* an activity page as the classifier sees it: for each selector group,
\* whether any selector of the group matches
Pages == [quiz : BOOLEAN, poll : BOOLEAN, trivia : BOOLEAN, lightspeed : BOOLEAN]

NoPage == [quiz |-> FALSE, poll |-> FALSE, trivia |-> FALSE, lightspeed |-> FALSE]

\* a classifier that forgets the lightspeed group
detect_activity_type_NoLightspeed(pg) ==
    IF pg.quiz THEN "quiz"
    ELSE IF pg.poll THEN "poll"
    ELSE IF pg.trivia THEN "trivia"
    ELSE "click_only"

\* a classifier that looks for the trivia group first
detect_activity_type_TriviaFirst(pg) ==
    IF pg.trivia THEN "trivia"
    ELSE IF pg.quiz THEN "quiz"
    ELSE IF pg.poll THEN "poll"
    ELSE IF pg.lightspeed THEN "quiz"
    ELSE "click_only"

detect_activity_type(pg) ==
    IF pg.quiz THEN "quiz"
    ELSE IF pg.poll THEN "poll"
    ELSE IF pg.trivia THEN "trivia"
    ELSE IF pg.lightspeed THEN "quiz"
    ELSE "click_only"

\* the groups in the order they are queried
GroupMatches(pg, g) ==
    CASE g = 1 -> pg.quiz
      [] g = 2 -> pg.poll
      [] g = 3 -> pg.trivia
      [] g = 4 -> pg.lightspeed

\* page.query_selector raises in group failAt (0: in none) before that group
\* matched: the classifier has returned already if an earlier group matched,
\* and raises otherwise
ClassifierRaises(pg, failAt) ==
    failAt # 0 /\ \A g \in 1..(failAt - 1) : ~GroupMatches(pg, g)

\* a dispatch whose default is the poll handler
HandlerEntry_PollDefault(type) ==
    CASE type = "quiz" -> "quiz_start"
      [] type = "poll" -> "poll_options"
      [] type = "trivia" -> "trivia_loop"
      [] OTHER -> "poll_options"

\* handlers.get(activity_type, handle_click_only): where the handler starts
HandlerEntry(type) ==
    CASE type = "quiz" -> "quiz_start"
      [] type = "poll" -> "poll_options"
      [] type = "trivia" -> "trivia_loop"
      [] OTHER -> "click_wait"

-----------------------------------------------------------------------------
(* app.py: account_selection and close_browser *)

\* account_selection is not running
NoAccount ==
    [at |-> "idle", dry |-> TRUE, force_clear |-> FALSE, extract |-> FALSE,
     browser |-> "none", closeCalled |-> FALSE, event |-> "none",
     last |-> << >>, prompts |-> 0, refused |-> 0, ret |-> "none",
     how |-> "none"]

\* lines typed at the prompt of line 717, as input() returns them
LineEnter == << >>
LineBlank == <<" ">>
LineExit == <<"e","x","i","t">>
LineExitUpper == <<" ","E","X","I","T"," ">>
LineEnterWord == <<"E","n","t","e","r">>
LineOther == <<"n","o">>

InputLines ==
    {LineEnter, LineBlank, LineExit, LineExitUpper, LineEnterWord, LineOther}

\* line 717: input(...).strip().lower()
user_input(line) == lower(strip(line))

\* lines 719 and 724: the two answers the prompt knows
IsExit(line) == user_input(line) = <<"e","x","i","t">>

IsEnter(line) ==
    user_input(line) = << >> \/ user_input(line) = <<"e","n","t","e","r">>

\* an ENTER that is taken whatever the browser does
StillRunning_Unchecked(dry, browser) == FALSE

\* line 726: not options.dryrun and chrome.poll() is None
StillRunning(dry, browser) == ~dry /\ browser = "running"

\* line 765: not options.dryrun and chrome.poll() is not None
HasTerminated(dry, browser) == ~dry /\ browser = "terminated"

\* lines 422-456: what close_browser(chrome) leaves of the process: one that
\* has terminated is left alone (line 431); one that runs is signalled and
\* waited for up to 5 seconds, and every failure of that is caught and printed
close_browser(browser) ==
    IF browser = "running" THEN {"terminated", "running"} ELSE {browser}

\* prompts answered in one call
MaxPrompts == 3

-----------------------------------------------------------------------------
(* The run *)

NotReturned == [kind |-> "none", value |-> 0]
Returned(n) == [kind |-> "value", value |-> n]
Raised == [kind |-> "raised", value |-> 0]

\* the variables of run_daily_activities
orchestratorVars ==
    << backRaised, login, signalled, started, handled, dryrun, pw, ctx, checks,
       dom, detected, primary, altUsed, activities, idx, completed, reported,
       ret >>

runVars == << today, file, hs, kwcfg, acct, gens, orchestratorVars >>

handlerVars == << page, atype, q, optRounds, optClicks, startClicks, waits,
                  scrolls, sawComplete, noOpts, missed, failed, success >>

\* the state of complete_activity and its handler when an activity starts
HandlerReset ==
    /\ page' = NoPage
    /\ atype' = "none"
    /\ q' = 0
    /\ optRounds' = 0
    /\ optClicks' = 0
    /\ startClicks' = 0
    /\ waits' = 0
    /\ scrolls' = 0
    /\ sawComplete' = FALSE
    /\ noOpts' = FALSE
    /\ missed' = FALSE
    /\ failed' = "none"
    /\ success' = FALSE

HandlerInit ==
    /\ page = NoPage
    /\ atype = "none"
    /\ q = 0
    /\ optRounds = 0
    /\ optClicks = 0
    /\ startClicks = 0
    /\ waits = 0
    /\ scrolls = 0
    /\ sawComplete = FALSE
    /\ noOpts = FALSE
    /\ missed = FALSE
    /\ failed = "none"
    /\ success = FALSE

\* page.content() of the dashboard, as far as the keyword test reads it
ContentNone == << >>
ContentRewards == <<"M","i","c","r","o","s","o","f","t"," ","R","e","w","a","r","d","s">>
ContentPoints == <<"1","2","0"," ","P","o","i","n","t","s">>
ContentRewardsPoints == ContentRewards \o <<" ">> \o ContentPoints
ContentRewardsPoin == <<"r","e","w","a","r","d","s"," ","1","2","0"," ","p","o","i","n">>

ContentCatalogue ==
    {ContentNone, ContentRewards, ContentPoints, ContentRewardsPoints,
     ContentRewardsPoin}

\* the three Page Driver calls of _check_login, in the order it makes them;
\* raisesAt names the one that raises, 0 for none
LoginCalls == 3

\* what _check_login can observe of the dashboard
LoginPages ==
    [avatar : BOOLEAN, content : ContentCatalogue, signIn : BOOLEAN,
     raisesAt : 0..LoginCalls]

\* the value of `login` in a run that draws the observation at each check
NoLogin ==
    [avatar |-> FALSE, content |-> ContentNone, signIn |-> FALSE, raisesAt |-> 0]

Init ==
    /\ pc = "start"
    /\ dryrun \in BOOLEAN
    /\ login = NoLogin
    /\ signalled = FALSE
    /\ started = << >>
    /\ handled = 0
    /\ backRaised = FALSE
    /\ today = FirstToday
    /\ file = NoFile
    /\ hs = NoCaller
    /\ kwcfg = NoKeywords
    /\ acct = NoAccount
    /\ gens = NoGenerators
    /\ pw = "none"
    /\ ctx = "none"
    /\ checks = << >>
    /\ dom = EmptyDom
    /\ detected = FALSE
    /\ primary = << >>
    /\ altUsed = FALSE
    /\ activities = << >>
    /\ idx = 0
    /\ completed = 0
    /\ reported = << >>
    /\ ret = NotReturned
    /\ HandlerInit

\* an exception reaches the `except Exception` of run_daily_activities
ToFatal == pc' = "fatal"

\* lines 451-469: the browser path given, or found by scan_system
ResolveBrowser ==
    /\ pc = "start"
    /\ \E given \in BOOLEAN, scanned \in BOOLEAN :
         IF given \/ scanned
         THEN pc' = "playwright" /\ ret' = ret
         ELSE pc' = "done" /\ ret' = Returned(0)
    /\ UNCHANGED << today, file, hs, kwcfg, acct, gens, backRaised, login, signalled, started, handled, dryrun, pw, ctx, checks, dom, detected, primary, altUsed,
                    activities, idx, completed, reported >>
    /\ UNCHANGED handlerVars

\* line 473: entering `async with async_playwright()`, outside the try
StartPlaywright ==
    /\ pc = "playwright"
    /\ \/ pw' = "started" /\ pc' = "launch" /\ ret' = ret
       \/ pw' = pw /\ pc' = "done" /\ ret' = Raised
    /\ UNCHANGED << today, file, hs, kwcfg, acct, gens, backRaised, login, signalled, started, handled, dryrun, ctx, checks, dom, detected, primary, altUsed, activities,
                    idx, completed, reported >>
    /\ UNCHANGED handlerVars

\* lines 477-503: launch_persistent_context
Launch ==
    /\ pc = "launch"
    /\ \/ ctx' = "open" /\ pc' = "new_page"
       \/ ctx' = ctx /\ ToFatal
    /\ UNCHANGED << today, file, hs, kwcfg, acct, gens, backRaised, login, signalled, started, handled, dryrun, pw, checks, dom, detected, primary, altUsed, activities,
                    idx, completed, reported, ret >>
    /\ UNCHANGED handlerVars

\* line 505: context.new_page()
NewPage ==
    /\ pc = "new_page"
    /\ \/ pc' = "goto_dashboard"
       \/ ToFatal
    /\ UNCHANGED runVars
    /\ UNCHANGED handlerVars

\* lines 509-510 and 523-524: page.goto(REWARDS_URL) loads a dashboard
GotoDashboard ==
    /\ pc \in {"goto_dashboard", "goto_dashboard_again"}
    /\ \/ /\ \E d \in RunDoms : dom' = d
          /\ pc' = IF pc = "goto_dashboard" THEN "check_login" ELSE "check_login_again"
       \/ dom' = dom /\ ToFatal
    /\ UNCHANGED << today, file, hs, kwcfg, acct, gens, backRaised, login, signalled, started, handled, dryrun, pw, ctx, checks, detected, primary, altUsed, activities,
                    idx, completed, reported, ret >>
    /\ UNCHANGED handlerVars

\* lines 602-604: "rewards" in content.lower() and ("point" in ... or "poin" in ...)
HasPointsContent(content) ==
    /\ contains(lower(content), <<"r","e","w","a","r","d","s">>)
    /\ \/ contains(lower(content), <<"p","o","i","n","t">>)
       \/ contains(lower(content), <<"p","o","i","n">>)

\* a call of _check_login raises: the avatar query, or page.content() when
\* no avatar was found, or the sign-in query when the first two tests fell
\* through
LoginRaises(lp) ==
    \/ lp.raisesAt = 1
    \/ lp.raisesAt = 2 /\ ~lp.avatar
    \/ lp.raisesAt = 3 /\ ~lp.avatar /\ ~HasPointsContent(lp.content)

\* a gate that refuses when the DOM cannot be read
OnLoginError_Closed == FALSE

\* lines 616-617: except Exception: return True
OnLoginError == TRUE

\* a gate that looks for the sign-in affordance first
_check_login_SignInFirst(lp) ==
    IF LoginRaises(lp) THEN OnLoginError
    ELSE IF lp.signIn THEN FALSE
    ELSE TRUE

\* lines 589-617
_check_login(lp) ==
    IF LoginRaises(lp) THEN OnLoginError
    ELSE IF lp.avatar THEN TRUE
    ELSE IF HasPointsContent(lp.content) THEN TRUE
    ELSE ~lp.signIn
\* a run that goes on to detection whatever the first check says
AfterFirstCheck_Ungated(ok) == "detect"

\* lines 514-520: if not logged_in: wait for the manual login
AfterFirstCheck(ok) == IF ok THEN "detect" ELSE "wait_input"

\* lines 513-514: logged_in = await _check_login(page); if not logged_in: ...
CheckLoginOn(lp) ==
    /\ pc = "check_login"
    /\ checks' = Append(checks, _check_login(lp))
    /\ pc' = AfterFirstCheck(_check_login(lp))
    /\ UNCHANGED << today, file, hs, kwcfg, acct, gens, backRaised, login, signalled, started, handled, dryrun, pw, ctx, dom,
                    detected, primary, altUsed, activities, idx, completed,
                    reported, ret >>
    /\ UNCHANGED handlerVars

\* the first login check, on whatever the dashboard shows
CheckLogin == \E lp \in LoginPages : CheckLoginOn(lp)
\* an input wait that prompts again on every line typed and never goes on
WaitInput_Reprompts ==
    /\ pc = "wait_input"
    /\ signalled' = ~signalled
    /\ pc' = "wait_input"
    /\ UNCHANGED << today, file, hs, kwcfg, acct, gens, backRaised, login, started, handled, dryrun, pw, ctx, checks, dom,
                    detected, primary, altUsed, activities, idx, completed,
                    reported, ret >>
    /\ UNCHANGED handlerVars

\* line 520: run_in_executor(None, input) returns when ENTER is typed, raises
\* (EOFError on a closed stdin), or the run is interrupted while it waits:
\* KeyboardInterrupt / CancelledError are not `Exception`s
WaitInput ==
    /\ pc = "wait_input"
    /\ \/ signalled' = TRUE /\ pc' = "goto_dashboard_again"
       \/ signalled' = signalled /\ ToFatal
       \/ signalled' = signalled /\ pc' = "exit_raise"
    /\ UNCHANGED << today, file, hs, kwcfg, acct, gens, backRaised, login, started, handled, dryrun, pw, ctx, checks, dom,
                    detected, primary, altUsed, activities, idx, completed,
                    reported, ret >>
    /\ UNCHANGED handlerVars

\* a run that goes on to detection whatever the second check says
AfterSecondCheck_Ignored(ok) == "detect"

\* lines 527-532: if not logged_in: close and return 0
AfterSecondCheck(ok) == IF ok THEN "detect" ELSE "close_not_logged_in"

\* lines 526-532: the second login check
CheckLoginAgain ==
    /\ pc = "check_login_again"
    /\ \E lp \in LoginPages :
         /\ checks' = Append(checks, _check_login(lp))
         /\ pc' = AfterSecondCheck(_check_login(lp))
    /\ UNCHANGED << today, file, hs, kwcfg, acct, gens, backRaised, login, signalled, started, handled, dryrun, pw, ctx, dom,
                    detected, primary, altUsed, activities, idx, completed,
                    reported, ret >>
    /\ UNCHANGED handlerVars

\* lines 529-530: context.close() and `return 0` after the second negative check
CloseNotLoggedIn ==
    /\ pc = "close_not_logged_in"
    /\ \/ ctx' = "closed" /\ pc' = "exit_zero"
       \/ ctx' = "close_failed" /\ ToFatal
    /\ UNCHANGED << today, file, hs, kwcfg, acct, gens, backRaised, login, signalled, started, handled, dryrun, pw, checks, dom, detected, primary, altUsed, activities,
                    idx, completed, reported, ret >>
    /\ UNCHANGED handlerVars

\* a run that asks the alternative detector whatever the primary one found
NeedsAlternative_Always(acts) == TRUE

\* line 538: if not activities
NeedsAlternative(acts) == acts = << >>

\* line 536: activities = await detect_activities(page); a query_selector_all
\* of its cascade may raise
Detect ==
    /\ pc = "detect"
    /\ \/ /\ detected' = TRUE
          /\ primary' = detect_activities(dom)
          /\ activities' = detect_activities(dom)
          /\ pc' = IF NeedsAlternative(detect_activities(dom))
                   THEN "detect_alternative" ELSE "list"
       \/ /\ UNCHANGED << detected, primary, activities >>
          /\ ToFatal
    /\ UNCHANGED << today, file, hs, kwcfg, acct, gens, backRaised, login, signalled, started, handled, dryrun, pw, ctx, checks, dom, altUsed, idx, completed,
                    reported, ret >>
    /\ UNCHANGED handlerVars

\* lines 538-544: activities = await _detect_alternative(page)
DetectAlternative ==
    /\ pc = "detect_alternative"
    /\ activities' = _detect_alternative(dom)
    /\ altUsed' = TRUE
    /\ pc' = "list"
    /\ UNCHANGED << today, file, hs, kwcfg, acct, gens, backRaised, login, signalled, started, handled, dryrun, pw, ctx, checks, dom, detected, primary, idx, completed,
                    reported, ret >>
    /\ UNCHANGED handlerVars

\* loops that forget one of the two conditions
StartsLoop_IgnoresDryrun(acts, dry) == acts # << >>
StartsLoop_IgnoresEmpty(acts, dry) == ~dry

\* lines 546-555: `if activities:` ... `if dryrun:` skips the for loop, and
\* the for loop over an empty list has no turn
StartsLoop(acts, dry) == acts # << >> /\ ~dry

\* lines 546-555: list the activities; start the for loop unless dryrun
BeginLoop ==
    /\ pc = "list"
    /\ IF StartsLoop(activities, dryrun)
       THEN idx' = 1 /\ pc' = "act_goto"
       ELSE idx' = idx /\ pc' = "summary"
    /\ UNCHANGED << today, file, hs, kwcfg, acct, gens, backRaised, login, signalled, started, handled, dryrun, pw, ctx, checks, dom, detected, primary, altUsed,
                    activities, completed, reported, ret >>
    /\ UNCHANGED handlerVars

-----------------------------------------------------------------------------
(* complete_activity and the handlers *)

\* the handler returns val to complete_activity, which returns it to the loop
Return(val) == success' = val /\ pc' = "tally"

\* a failure that is answered with True
Fail_Counts(what) == failed' = what /\ Return(TRUE)

\* a Page Driver call raised in a handler body or in complete_activity: the
\* enclosing `except Exception` returns False
Fail(what) == failed' = what /\ Return(FALSE)

\* a navigation failure that ends the whole run
GotoFailure_Aborts == failed' = "goto" /\ success' = FALSE /\ ToFatal

\* page.goto raised inside complete_activity's try
GotoFailure == Fail("goto")

\* line 556 and lines 384-389: complete_activity(page, act) starts with
\* page.goto(full_url, timeout=30000)
ActGoto ==
    /\ pc = "act_goto"
    /\ started' = Append(started, idx)
    /\ backRaised' = FALSE
    /\ \/ /\ \E pg \in Pages : page' = pg
          /\ pc' = "classify"
          /\ UNCHANGED << failed, success >>
       \/ /\ page' = page
          /\ GotoFailure
    /\ UNCHANGED << today, file, hs, kwcfg, acct, gens, login, signalled, handled, dryrun, pw, ctx, checks, dom,
                    detected, primary, altUsed, activities, idx, completed,
                    reported, ret >>
    /\ UNCHANGED << atype, q, optRounds, optClicks, startClicks, waits,
                    scrolls, sawComplete, noOpts, missed >>

\* lines 392-403: activity_type = await detect_activity_type(page), then the
\* dispatch to the handler
Classify ==
    /\ pc = "classify"
    /\ \E failAt \in 0..4 :
         IF ClassifierRaises(page, failAt)
         THEN atype' = atype /\ Fail("classify")
         ELSE /\ atype' = detect_activity_type(page)
              /\ pc' = HandlerEntry(detect_activity_type(page))
              /\ UNCHANGED << failed, success >>
    /\ UNCHANGED runVars
    /\ UNCHANGED << page, q, optRounds, optClicks, startClicks, waits,
                    scrolls, sawComplete, noOpts, missed >>

\* range(20) in handle_quiz, range(15) in handle_trivia
QuizMax == 20
TriviaMax == 15

\* handlers that answer the other way when no option is found
QuizNoOptions_False == FALSE
PollNoOptions_True == TRUE

\* what each handler returns when its option query finds nothing: handle_quiz
\* and handle_trivia break out of the loop to `return True`, handle_poll
\* takes its else branch
QuizNoOptions == TRUE
TriviaNoOptions == TRUE
PollNoOptions == FALSE

\* what handle_quiz and handle_trivia return when the for loop runs out
LoopExhausted == TRUE

\* a loop bound that is off by one
QuizContinues_OffByOne(n) == n <= QuizMax

\* the loop continues while the range has values left
QuizContinues(n) == n < QuizMax
TriviaContinues(n) == n < TriviaMax
\* a start click covered by the per-click swallow: the handler goes on to
\* the options after a raising start click
QuizStart_Swallows ==
    /\ pc = "quiz_start"
    /\ \E o \in {"query_raises", "absent", "clicked", "click_raises"} :
         CASE o = "query_raises" ->
                startClicks' = startClicks /\ Fail("start_query")
           [] o = "absent" ->
                /\ startClicks' = startClicks
                /\ pc' = "quiz_loop"
                /\ UNCHANGED << failed, success >>
           [] o = "clicked" ->
                /\ startClicks' = startClicks + 1
                /\ pc' = "quiz_loop"
                /\ UNCHANGED << failed, success >>
           [] o = "click_raises" ->
                /\ startClicks' = startClicks + 1
                /\ failed' = "start_click"
                /\ pc' = "quiz_loop"
                /\ UNCHANGED success
    /\ UNCHANGED runVars
    /\ UNCHANGED << page, atype, q, optRounds, optClicks, waits, scrolls,
                    sawComplete, noOpts, missed >>

\* lines 221-228: the optional start button
QuizStart ==
    /\ pc = "quiz_start"
    /\ \E o \in {"query_raises", "absent", "clicked", "click_raises"} :
         CASE o = "query_raises" ->
                startClicks' = startClicks /\ Fail("start_query")
           [] o = "absent" ->
                /\ startClicks' = startClicks
                /\ pc' = "quiz_loop"
                /\ UNCHANGED << failed, success >>
           [] o = "clicked" ->
                /\ startClicks' = startClicks + 1
                /\ pc' = "quiz_loop"
                /\ UNCHANGED << failed, success >>
           [] o = "click_raises" ->
                startClicks' = startClicks + 1 /\ Fail("start_click")
    /\ UNCHANGED runVars
    /\ UNCHANGED << page, atype, q, optRounds, optClicks, waits, scrolls,
                    sawComplete, noOpts, missed >>

\* lines 231-246 and 267: the loop head and the two option queries (the
\* answer options, then the generic fallback)
QuizLoop ==
    /\ pc = "quiz_loop"
    /\ IF ~QuizContinues(q)
       THEN /\ Return(LoopExhausted)
            /\ UNCHANGED << optRounds, noOpts, failed >>
       ELSE \E o \in {"raises", "none", "found"} :
              CASE o = "raises" ->
                     Fail("option_query") /\ UNCHANGED << optRounds, noOpts >>
                [] o = "none" ->
                     /\ noOpts' = TRUE
                     /\ Return(QuizNoOptions)
                     /\ UNCHANGED << optRounds, failed >>
                [] o = "found" ->
                     /\ optRounds' = optRounds + 1
                     /\ pc' = "quiz_click"
                     /\ UNCHANGED << noOpts, failed, success >>
    /\ UNCHANGED runVars
    /\ UNCHANGED << page, atype, q, optClicks, startClicks, waits, scrolls,
                    sawComplete, missed >>

\* lines 249-256: click a random option; an exception is swallowed
QuizClick ==
    /\ pc = "quiz_click"
    /\ optClicks' = optClicks + 1
    /\ \E clicked \in BOOLEAN : missed' = (missed \/ ~clicked)
    /\ pc' = "quiz_check"
    /\ UNCHANGED runVars
    /\ UNCHANGED << page, atype, q, optRounds, startClicks, waits, scrolls,
                    sawComplete, noOpts, failed, success >>

\* a completion check that notes the marker and goes on with the loop
QuizCheck_KeepsGoing ==
    /\ pc = "quiz_check"
    /\ \E o \in {"raises", "complete", "not_complete"} :
         CASE o = "raises" ->
                Fail("complete_query") /\ UNCHANGED << q, sawComplete >>
           [] o = "complete" ->
                /\ sawComplete' = TRUE
                /\ q' = q + 1
                /\ pc' = "quiz_loop"
                /\ UNCHANGED << failed, success >>
           [] o = "not_complete" ->
                /\ q' = q + 1
                /\ pc' = "quiz_loop"
                /\ UNCHANGED << sawComplete, failed, success >>
    /\ UNCHANGED runVars
    /\ UNCHANGED << page, atype, optRounds, optClicks, startClicks, waits,
                    scrolls, noOpts, missed >>

\* lines 259-265: the completion check that ends an iteration
QuizCheck ==
    /\ pc = "quiz_check"
    /\ \E o \in {"raises", "complete", "not_complete"} :
         CASE o = "raises" ->
                Fail("complete_query") /\ UNCHANGED << q, sawComplete >>
           [] o = "complete" ->
                /\ sawComplete' = TRUE
                /\ Return(TRUE)
                /\ UNCHANGED << q, failed >>
           [] o = "not_complete" ->
                /\ q' = q + 1
                /\ pc' = "quiz_loop"
                /\ UNCHANGED << sawComplete, failed, success >>
    /\ UNCHANGED runVars
    /\ UNCHANGED << page, atype, optRounds, optClicks, startClicks, waits,
                    scrolls, noOpts, missed >>

\* lines 283-295 and 301-303: the two option queries of handle_poll
PollOptions ==
    /\ pc = "poll_options"
    /\ \E o \in {"raises", "none", "found"} :
         CASE o = "raises" ->
                Fail("option_query") /\ UNCHANGED << optRounds, noOpts >>
           [] o = "none" ->
                /\ noOpts' = TRUE
                /\ Return(PollNoOptions)
                /\ UNCHANGED << optRounds, failed >>
           [] o = "found" ->
                /\ optRounds' = optRounds + 1
                /\ pc' = "poll_click"
                /\ UNCHANGED << noOpts, failed, success >>
    /\ UNCHANGED runVars
    /\ UNCHANGED << page, atype, q, optClicks, startClicks, waits, scrolls,
                    sawComplete, missed >>
\* a poll click guarded like the quiz click: a raising click is passed over
\* and the handler still returns True
PollClick_Swallows ==
    /\ pc = "poll_click"
    /\ optClicks' = optClicks + 1
    /\ \/ Return(TRUE) /\ failed' = failed
       \/ Return(TRUE) /\ failed' = "option_click"
    /\ UNCHANGED runVars
    /\ UNCHANGED << page, atype, q, optRounds, startClicks, waits, scrolls,
                    sawComplete, noOpts, missed >>

\* lines 296-300 and 305-307: the single click, not guarded on its own
PollClick ==
    /\ pc = "poll_click"
    /\ optClicks' = optClicks + 1
    /\ \/ Return(TRUE) /\ failed' = failed
       \/ Fail("option_click")
    /\ UNCHANGED runVars
    /\ UNCHANGED << page, atype, q, optRounds, startClicks, waits, scrolls,
                    sawComplete, noOpts, missed >>

\* lines 319-329 and 350: the loop head and the option query
TriviaLoop ==
    /\ pc = "trivia_loop"
    /\ IF ~TriviaContinues(q)
       THEN /\ Return(LoopExhausted)
            /\ UNCHANGED << optRounds, noOpts, failed >>
       ELSE \E o \in {"raises", "none", "found"} :
              CASE o = "raises" ->
                     Fail("option_query") /\ UNCHANGED << optRounds, noOpts >>
                [] o = "none" ->
                     /\ noOpts' = TRUE
                     /\ Return(TriviaNoOptions)
                     /\ UNCHANGED << optRounds, failed >>
                [] o = "found" ->
                     /\ optRounds' = optRounds + 1
                     /\ pc' = "trivia_click"
                     /\ UNCHANGED << noOpts, failed, success >>
    /\ UNCHANGED runVars
    /\ UNCHANGED << page, atype, q, optClicks, startClicks, waits, scrolls,
                    sawComplete, missed >>

\* lines 332-339: click a random option; an exception is swallowed
TriviaClick ==
    /\ pc = "trivia_click"
    /\ optClicks' = optClicks + 1
    /\ \E clicked \in BOOLEAN : missed' = (missed \/ ~clicked)
    /\ pc' = "trivia_check"
    /\ UNCHANGED runVars
    /\ UNCHANGED << page, atype, q, optRounds, startClicks, waits, scrolls,
                    sawComplete, noOpts, failed, success >>

\* lines 342-348: the completion check that ends an iteration
TriviaCheck ==
    /\ pc = "trivia_check"
    /\ \E o \in {"raises", "complete", "not_complete"} :
         CASE o = "raises" ->
                Fail("complete_query") /\ UNCHANGED << q, sawComplete >>
           [] o = "complete" ->
                /\ sawComplete' = TRUE
                /\ Return(TRUE)
                /\ UNCHANGED << q, failed >>
           [] o = "not_complete" ->
                /\ q' = q + 1
                /\ pc' = "trivia_loop"
                /\ UNCHANGED << sawComplete, failed, success >>
    /\ UNCHANGED runVars
    /\ UNCHANGED << page, atype, optRounds, optClicks, startClicks, waits,
                    scrolls, noOpts, missed >>

\* lines 363-364: _wait_for_page_load swallows its own exception
ClickOnlyWait ==
    /\ pc = "click_wait"
    /\ waits' = waits + 1
    /\ pc' = "click_scroll"
    /\ UNCHANGED runVars
    /\ UNCHANGED << page, atype, q, optRounds, optClicks, startClicks,
                    scrolls, sawComplete, noOpts, missed, failed, success >>

\* lines 367-375: page.evaluate("window.scrollBy(0, 300)")
ClickOnlyScroll ==
    /\ pc = "click_scroll"
    /\ \/ scrolls' = scrolls + 1 /\ Return(TRUE) /\ failed' = failed
       \/ scrolls' = scrolls /\ Fail("scroll")
    /\ UNCHANGED runVars
    /\ UNCHANGED << page, atype, q, optRounds, optClicks, startClicks, waits,
                    sawComplete, noOpts, missed >>

-----------------------------------------------------------------------------
(* The rest of the loop, the summary and the exits *)

\* a tally that counts a success in the handler and again in the loop
Tally_Twice(count, ok) == IF ok THEN count + 2 ELSE count

\* lines 557-558: if success: completed += 1
Tally(count, ok) == IF ok THEN count + 1 ELSE count

CountActivity ==
    /\ pc = "tally"
    /\ completed' = Tally(completed, success)
    /\ handled' = handled + 1
    /\ pc' = "back"
    /\ UNCHANGED << today, file, hs, kwcfg, acct, gens, backRaised, login, signalled, started, dryrun, pw, ctx, checks, dom, detected, primary, altUsed,
                    activities, idx, reported, ret >>
    /\ UNCHANGED handlerVars

\* a loop that takes one turn too many
HasNext_Again(i, acts) == i <= Len(acts)

\* the for loop has another activity after position i
HasNext(i, acts) == i < Len(acts)

\* a loop that lets a failed navigation back end the run
BackSwallowed_OnlyArrived(arrived) == arrived

\* lines 562-570: try: page.goto(REWARDS_URL) ... except Exception: pass
BackSwallowed(arrived) == TRUE

\* lines 562-570, then the next turn of the for loop: the navigation back to
\* the dashboard, whose exception is swallowed
BackToDashboard ==
    /\ pc = "back"
    /\ UNCHANGED << today, file, hs, kwcfg, acct, gens >>
    /\ \E arrived \in BOOLEAN :
         /\ backRaised' = ~arrived
         /\ IF ~BackSwallowed(arrived)
            THEN idx' = idx /\ ToFatal /\ UNCHANGED handlerVars
            ELSE IF HasNext(idx, activities)
            THEN idx' = idx + 1 /\ pc' = "act_goto" /\ HandlerReset
            ELSE idx' = idx /\ pc' = "summary" /\ UNCHANGED handlerVars
    /\ UNCHANGED << login, signalled, started, handled, dryrun, pw, ctx, checks,
                    dom, detected, primary, altUsed, activities, completed,
                    reported, ret >>

\* lines 575-577: the summary line
Summary ==
    /\ pc = "summary"
    /\ reported' = << completed, Len(activities) >>
    /\ pc' = "close"
    /\ UNCHANGED << today, file, hs, kwcfg, acct, gens, backRaised, login, signalled, started, handled, dryrun, pw, ctx, checks, dom, detected, primary, altUsed,
                    activities, idx, completed, ret >>
    /\ UNCHANGED handlerVars

\* line 579: context.close()
Close ==
    /\ pc = "close"
    /\ \/ ctx' = "closed" /\ pc' = "exit"
       \/ ctx' = "close_failed" /\ ToFatal
    /\ UNCHANGED << today, file, hs, kwcfg, acct, gens, backRaised, login, signalled, started, handled, dryrun, pw, checks, dom, detected, primary, altUsed, activities,
                    idx, completed, reported, ret >>
    /\ UNCHANGED handlerVars

\* lines 581-584: except Exception: print the error and the traceback
Fatal ==
    /\ pc = "fatal"
    /\ pc' = "exit"
    /\ UNCHANGED runVars
    /\ UNCHANGED handlerVars

\* leaving `async with`, then line 586 `return completed`, or the `return 0`
\* of line 530, or the interrupt going on to the caller
ExitPlaywright ==
    /\ pc \in {"exit", "exit_zero", "exit_raise"}
    /\ pw' = "stopped"
    /\ ret' = CASE pc = "exit_zero" -> Returned(0)
                [] pc = "exit_raise" -> Raised
                [] OTHER -> Returned(completed)
    /\ pc' = "done"
    /\ UNCHANGED << today, file, hs, kwcfg, acct, gens, backRaised, login, signalled, started, handled, dryrun, ctx, checks, dom, detected, primary, altUsed, activities,
                    idx, completed, reported >>
    /\ UNCHANGED handlerVars

Next ==
    \/ ResolveBrowser
    \/ StartPlaywright
    \/ Launch
    \/ NewPage
    \/ GotoDashboard
    \/ CheckLogin
    \/ WaitInput
    \/ CheckLoginAgain
    \/ CloseNotLoggedIn
    \/ Detect
    \/ DetectAlternative
    \/ BeginLoop
    \/ ActGoto
    \/ Classify
    \/ QuizStart
    \/ QuizLoop
    \/ QuizClick
    \/ QuizCheck
    \/ PollOptions
    \/ PollClick
    \/ TriviaLoop
    \/ TriviaClick
    \/ TriviaCheck
    \/ ClickOnlyWait
    \/ ClickOnlyScroll
    \/ CountActivity
    \/ BackToDashboard
    \/ Summary
    \/ Close
    \/ Fatal
    \/ ExitPlaywright

Spec == Init /\ [][Next]_vars

\* the runs whose termination is checked: the dashboard shows at most
\* LiveActs cards, all of them pending
LiveActs == 2

LiveDashboard(d) ==
    /\ Len(d.mee) <= LiveActs
    /\ \A i \in 1..Len(d.mee) : ~d.mee[i].checkEl

\* line 509 on such a dashboard
GotoLiveDashboard == GotoDashboard /\ LiveDashboard(dom')

NextLive ==
    \/ ResolveBrowser
    \/ StartPlaywright
    \/ Launch
    \/ NewPage
    \/ GotoLiveDashboard
    \/ CheckLogin
    \/ WaitInput
    \/ CheckLoginAgain
    \/ CloseNotLoggedIn
    \/ Detect
    \/ DetectAlternative
    \/ BeginLoop
    \/ ActGoto
    \/ Classify
    \/ QuizStart
    \/ QuizLoop
    \/ QuizClick
    \/ QuizCheck
    \/ PollOptions
    \/ PollClick
    \/ TriviaLoop
    \/ TriviaClick
    \/ TriviaCheck
    \/ ClickOnlyWait
    \/ ClickOnlyScroll
    \/ CountActivity
    \/ BackToDashboard
    \/ Summary
    \/ Close
    \/ Fatal
    \/ ExitPlaywright

\* the run under the scheduling the Page Driver and the operator provide:
\* every call that is pending eventually returns or raises, and the line the
\* input wait of line 520 is blocked on eventually arrives.  One position of
\* the run is enabled at a time, so this is weak fairness of the next step.
SpecLive == Init /\ [][NextLive]_vars /\ WF_vars(NextLive)

-----------------------------------------------------------------------------
(* The detectors alone, on every dashboard of DetectDoms *)

InitDetect ==
    /\ pc = "detect"
    /\ dryrun = TRUE
    /\ login = NoLogin
    /\ signalled = FALSE
    /\ started = << >>
    /\ handled = 0
    /\ backRaised = FALSE
    /\ today = FirstToday
    /\ file = NoFile
    /\ hs = NoCaller
    /\ kwcfg = NoKeywords
    /\ acct = NoAccount
    /\ gens = NoGenerators
    /\ pw = "started"
    /\ ctx = "open"
    /\ checks = << TRUE >>
    /\ dom \in DetectDoms
    /\ detected = FALSE
    /\ primary = << >>
    /\ altUsed = FALSE
    /\ activities = << >>
    /\ idx = 0
    /\ completed = 0
    /\ reported = << >>
    /\ ret = NotReturned
    /\ HandlerInit

\* a second detection pass over the same dashboard, made as lines 536-544
\* make the first
Redetect ==
    /\ pc = "list"
    /\ primary' = detect_activities(dom)
    /\ activities' = (IF NeedsAlternative(detect_activities(dom))
                      THEN _detect_alternative(dom)
                      ELSE detect_activities(dom))
    /\ pc' = "list_again"
    /\ UNCHANGED << today, file, hs, kwcfg, acct, gens, backRaised, login, signalled, started, handled, dryrun, pw, ctx,
                    checks, dom, detected, altUsed, idx, completed, reported, ret >>
    /\ UNCHANGED handlerVars

NextDetect == Detect \/ DetectAlternative \/ Redetect

SpecDetect == InitDetect /\ [][NextDetect]_vars

-----------------------------------------------------------------------------
(* The Login Gate alone, on every observation of LoginPages *)

InitLogin ==
    /\ pc = "check_login"
    /\ dryrun = TRUE
    /\ login \in LoginPages
    /\ signalled = FALSE
    /\ started = << >>
    /\ handled = 0
    /\ backRaised = FALSE
    /\ today = FirstToday
    /\ file = NoFile
    /\ hs = NoCaller
    /\ kwcfg = NoKeywords
    /\ acct = NoAccount
    /\ gens = NoGenerators
    /\ pw = "started"
    /\ ctx = "open"
    /\ checks = << >>
    /\ dom = EmptyDom
    /\ detected = FALSE
    /\ primary = << >>
    /\ altUsed = FALSE
    /\ activities = << >>
    /\ idx = 0
    /\ completed = 0
    /\ reported = << >>
    /\ ret = NotReturned
    /\ HandlerInit

\* the first login check, on the observation `login`
CheckLoginObserved == CheckLoginOn(login)

NextLogin == CheckLoginObserved

SpecLogin == InitLogin /\ [][NextLogin]_vars

-----------------------------------------------------------------------------
(* search_history alone: add_search(term), then is_search_used_recently(probe) *)

InitHistory ==
    /\ pc = "start"
    /\ dryrun = TRUE
    /\ login = NoLogin
    /\ signalled = FALSE
    /\ started = << >>
    /\ handled = 0
    /\ backRaised = FALSE
    /\ today \in Todays
    /\ file \in Files(today)
    /\ \E t \in TermCatalogue, u \in TermCatalogue :
         hs = [at |-> "add_search", term |-> t, probe |-> u,
               added |-> "none", used |-> "none"]
    /\ kwcfg = NoKeywords
    /\ acct = NoAccount
    /\ gens = NoGenerators
    /\ pw = "none"
    /\ ctx = "none"
    /\ checks = << >>
    /\ dom = EmptyDom
    /\ detected = FALSE
    /\ primary = << >>
    /\ altUsed = FALSE
    /\ activities = << >>
    /\ idx = 0
    /\ completed = 0
    /\ reported = << >>
    /\ ret = NotReturned
    /\ HandlerInit

\* lines 121-142: add_search(search_term)
AddSearch ==
    /\ hs.at = "add_search"
    /\ \E o \in SaveOutcomes(file, AddedHistory(file, hs.term, today)) :
         /\ file' = o.file
         /\ hs' = [hs EXCEPT !.at = "is_search_used_recently",
                             !.added = IF o.ok THEN "saved" ELSE "failed"]
    /\ UNCHANGED << today, kwcfg, acct, gens, pc, orchestratorVars, handlerVars >>

\* lines 145-157 and 99-118: is_search_used_recently(search_term, 7), whose
\* get_recent_searches saves the cleaned history
IsSearchUsedRecently ==
    /\ hs.at = "is_search_used_recently"
    /\ \E o \in SaveOutcomes(file, SavedByLookup(file, HistoryDays, today)) :
         file' = o.file
    /\ hs' = [hs EXCEPT !.at = "done",
                        !.used = IF Normalized(hs.probe) \in
                                       RecentOf(RecentHistory(file, HistoryDays, today))
                                 THEN "yes" ELSE "no"]
    /\ UNCHANGED << today, kwcfg, acct, gens, pc, orchestratorVars, handlerVars >>

NextHistory == AddSearch \/ IsSearchUsedRecently

SpecHistory == InitHistory /\ [][NextHistory]_vars

-----------------------------------------------------------------------------
(* search_history alone: get_recent_searches(days) on a history that holds  *)
(* days around both windows, then is_search_used_recently(probe, 7)         *)

\* the windows the first lookup is made with
LookupDays == {1, HistoryDays}

\* how many days before today the date keys of the history lie: around the
\* edge of the 1-day window and around the edge of the 7-day window
WindowAges == {0, 1, 2, HistoryDays - 1, HistoryDays, HistoryDays + 1}

WindowLists == { << TermTestLower >>, << TermTestWide, TermTestLower >> }

WindowFiles(day) ==
    { NoFile } \cup
    UNION { { FileOf(h) : h \in [ { isoformat(day - a) : a \in ages } -> WindowLists ] } :
              ages \in SUBSET WindowAges }

InitWindow ==
    /\ pc = "start"
    /\ dryrun = TRUE
    /\ login = NoLogin
    /\ signalled = FALSE
    /\ started = << >>
    /\ handled = 0
    /\ backRaised = FALSE
    /\ today \in Todays
    /\ file \in WindowFiles(today)
    /\ \E d \in LookupDays, u \in {TermTestWide, TermTestPadded} :
         hs = [at |-> "get_recent_searches", term |-> << >>, probe |-> u,
               added |-> "none", used |-> "none", days |-> d,
               orig |-> load_history(file), cleaned |-> << >>, saved |-> FALSE]
    /\ kwcfg = NoKeywords
    /\ acct = NoAccount
    /\ gens = NoGenerators
    /\ pw = "none"
    /\ ctx = "none"
    /\ checks = << >>
    /\ dom = EmptyDom
    /\ detected = FALSE
    /\ primary = << >>
    /\ altUsed = FALSE
    /\ activities = << >>
    /\ idx = 0
    /\ completed = 0
    /\ reported = << >>
    /\ ret = NotReturned
    /\ HandlerInit

\* lines 99-118: get_recent_searches(days); cleaned is what its
\* cleanup_old_history(history, days) returned
GetRecentSearches ==
    /\ hs.at = "get_recent_searches"
    /\ \E o \in SaveOutcomes(file, SavedByLookup(file, hs.days, today)) :
         /\ file' = o.file
         /\ hs' = [hs EXCEPT !.at = "is_search_used_recently",
                             !.cleaned = RecentHistory(file, hs.days, today),
                             !.saved = o.ok]
    /\ UNCHANGED << today, kwcfg, acct, gens, pc, orchestratorVars, handlerVars >>

NextWindow == GetRecentSearches \/ IsSearchUsedRecently

SpecWindow == InitWindow /\ [][NextWindow]_vars

-----------------------------------------------------------------------------
(* account_selection alone: the browser is opened, then the prompt loop of  *)
(* lines 715-790 runs while the operator may close the browser               *)

InitAccount ==
    /\ pc = "start"
    /\ dryrun = TRUE
    /\ login = NoLogin
    /\ signalled = FALSE
    /\ started = << >>
    /\ handled = 0
    /\ backRaised = FALSE
    /\ today = FirstToday
    /\ file = NoFile
    /\ hs = NoCaller
    /\ kwcfg = NoKeywords
    /\ \E d \in BOOLEAN, fc \in BOOLEAN, ex \in BOOLEAN :
         acct = [NoAccount EXCEPT !.at = "open", !.dry = d,
                                  !.force_clear = fc, !.extract = ex]
    /\ gens = NoGenerators
    /\ pw = "none"
    /\ ctx = "none"
    /\ checks = << >>
    /\ dom = EmptyDom
    /\ detected = FALSE
    /\ primary = << >>
    /\ altUsed = FALSE
    /\ activities = << >>
    /\ idx = 0
    /\ completed = 0
    /\ reported = << >>
    /\ ret = NotReturned
    /\ HandlerInit

accountFrame == << pc, today, file, hs, kwcfg, gens, orchestratorVars, handlerVars >>

\* account_selection returns, or is left by an exception
AccountEnds(a, val, how) == [a EXCEPT !.at = "done", !.ret = val, !.how = how]

\* lines 641-700: with dryrun nothing is opened; else open_browser(cmd), which
\* leaves the program by sys.exit(1) when the command cannot be run, and the
\* keyboard steps after it, whose exception goes to the handler of line 788
OpenBrowser ==
    /\ acct.at = "open"
    /\ IF acct.dry
       THEN acct' = [acct EXCEPT !.at = "prompt"]
       ELSE \/ acct' = [acct EXCEPT !.at = "prompt", !.browser = "running"]
            \/ acct' = AccountEnds(acct, "exit", "open_failed")
            \/ acct' = AccountEnds([acct EXCEPT !.browser = "running"],
                                   "false", "error")
    /\ UNCHANGED accountFrame

\* the operator closes the browser, or it ends by itself
BrowserExits ==
    /\ acct.at = "prompt"
    /\ acct.browser = "running"
    /\ acct' = [acct EXCEPT !.browser = "terminated"]
    /\ UNCHANGED accountFrame

\* lines 732-754 and 768-786: the wait, the session extract, whose exception
\* goes to the handler of line 788, and `return True, force_clear, ...`
Proceeds(a, how) ==
    { AccountEnds(a, "true", how) } \cup
    (IF a.extract THEN { AccountEnds(a, "false", "error") } ELSE {})

\* lines 716-786: one turn of the prompt loop on a line typed
AnswerLine ==
    /\ acct.at = "prompt"
    /\ acct.prompts < MaxPrompts
    /\ \E line \in InputLines :
         LET a == [acct EXCEPT !.event = "line", !.last = line,
                               !.prompts = acct.prompts + 1]
         IN  IF IsExit(line)
             THEN IF a.dry
                  THEN acct' = AccountEnds(a, "false", "exit")
                  ELSE \E b \in close_browser(a.browser) :
                         acct' = AccountEnds([a EXCEPT !.browser = b,
                                                       !.closeCalled = TRUE],
                                             "false", "exit")
             ELSE IF IsEnter(line)
             THEN IF StillRunning(a.dry, a.browser)
                  THEN acct' = [a EXCEPT !.refused = a.refused + 1]
                  ELSE acct' \in Proceeds(a, "enter")
             ELSE IF HasTerminated(a.dry, a.browser)
                  THEN acct' \in Proceeds(a, "auto")
                  ELSE acct' = a
    /\ UNCHANGED accountFrame

\* lines 758-762: CTRL+C at the prompt
AnswerInterrupt ==
    /\ acct.at = "prompt"
    /\ acct.prompts < MaxPrompts
    /\ LET a == [acct EXCEPT !.event = "interrupt", !.prompts = acct.prompts + 1]
       IN  IF a.dry
           THEN acct' = AccountEnds(a, "false", "ctrl_c")
           ELSE \E b \in close_browser(a.browser) :
                  acct' = AccountEnds([a EXCEPT !.browser = b,
                                                !.closeCalled = TRUE],
                                      "false", "ctrl_c")
    /\ UNCHANGED accountFrame

\* lines 788-790: input() raises (EOFError on a closed stdin)
AnswerRaises ==
    /\ acct.at = "prompt"
    /\ acct.prompts < MaxPrompts
    /\ acct' = AccountEnds([acct EXCEPT !.event = "eof",
                                        !.prompts = acct.prompts + 1],
                           "false", "error")
    /\ UNCHANGED accountFrame

NextAccount ==
    \/ OpenBrowser
    \/ BrowserExits
    \/ AnswerLine
    \/ AnswerInterrupt
    \/ AnswerRaises

SpecAccount == InitAccount /\ [][NextAccount]_vars

-----------------------------------------------------------------------------
(* daily_keyword_generator: the generator of word_generator, which records *)
(* what it yields, or the two generators of the previews made one after the *)
(* other by test_daily_keywords, which do not                               *)

InitKeywords ==
    /\ pc = "start"
    /\ dryrun = TRUE
    /\ login = NoLogin
    /\ signalled = FALSE
    /\ started = << >>
    /\ handled = 0
    /\ backRaised = FALSE
    /\ today = SecondToday
    /\ kwcfg \in KeywordConfigs(today)
    /\ acct = NoAccount
    /\ file = kwcfg.file0
    /\ hs = NoCaller
    /\ gens = NoGenerators
    /\ pw = "none"
    /\ ctx = "none"
    /\ checks = << >>
    /\ dom = EmptyDom
    /\ detected = FALSE
    /\ primary = << >>
    /\ altUsed = FALSE
    /\ activities = << >>
    /\ idx = 0
    /\ completed = 0
    /\ reported = << >>
    /\ ret = NotReturned
    /\ HandlerInit

\* next(gen): the body of the generator from where it stopped to its next
\* yield; the first call runs lines 209-238 before the first pass
Draw(g) ==
    /\ Len(gens[g].out) < MaxDraws
    /\ \E o1 \in (IF gens[g].stage = "new"
                   THEN SaveOutcomes(file, SavedByLookup(file, HistoryDays, today))
                   ELSE { [ok |-> TRUE, file |-> file] }) :
         LET new == gens[g].stage = "new"
             recent == IF new THEN RecentOf(RecentHistory(file, HistoryDays, today))
                       ELSE gens[g].recent
             y == NextYield(g, IF new THEN "first" ELSE gens[g].stage,
                            gens[g].pos, gens[g].used, recent)
         IN  /\ gens' = [gens EXCEPT ![g] =
                           [stage |-> y.stage,
                            pos |-> y.at + 1,
                            used |-> IF y.fresh
                                     THEN gens[g].used \cup {Normalized(y.keyword)}
                                     ELSE gens[g].used,
                            recent |-> recent,
                            out |-> Append(gens[g].out, y.keyword)]]
             /\ IF y.fresh /\ kwcfg.record
                THEN \E o2 \in SaveOutcomes(o1.file, AddedHistory(o1.file, y.keyword, today)) :
                        file' = o2.file
                ELSE file' = o1.file
    /\ UNCHANGED << today, hs, kwcfg, acct, pc, orchestratorVars, handlerVars >>

DrawFirst == Draw(1)

\* the generator of the second preview_today_searches call
DrawSecond == ~kwcfg.record /\ Draw(2)

NextKeywords == DrawFirst \/ DrawSecond

SpecKeywords == InitKeywords /\ [][NextKeywords]_vars

-----------------------------------------------------------------------------
(* Properties *)

\* positions inside a handler body
HandlerPcs ==
    { "quiz_start", "quiz_loop", "quiz_click", "quiz_check", "poll_options",
      "poll_click", "trivia_loop", "trivia_click", "trivia_check",
      "click_wait", "click_scroll" }

\* the handler of the current activity was dispatched and has returned
HandlerReturned == atype # "none" /\ pc \notin HandlerPcs

\* the tally line of the loop has run for the current activity
Counted == idx > 0 /\ pc \notin (HandlerPcs \cup {"act_goto", "classify", "tally"})

Unchecked(card) == ~card.checkEl

HasTitleAndUrl(card) ==
    Len(ExtractTitle(card)) >= 3 /\ ExtractUrl(card) # << >>

LinkHasTitleAndUrl(link) ==
    Len(strip(link.text)) >= 3 /\ OrEmpty(link.href) # << >>

\* C1: at every point of a run the tally is at most the number of detected
\* activities, and the summary reports a tally that is at most its total.
C1_TallyWithinDetected ==
    /\ completed <= Len(activities)
    /\ reported # << >> => reported[1] <= reported[2]

C1_Witness == reported = << 2, 2 >>

\* C2: no activity returned by a detection pass has completed = true, and
\* the primary detector returns what it would return had the cards with a
\* complete/check marker not been matched: such a card is never added.
C2_NoCompletedReturned ==
    /\ \A i \in 1..Len(primary) : ~primary[i].completed
    /\ \A i \in 1..Len(activities) : ~activities[i].completed
    /\ detected =>
         primary = DetectCards(SelectSeq(SelectCards(dom), Unchecked))

C2_Witness ==
    /\ pc = "list"
    /\ Len(primary) = 1
    /\ \E i \in 1..Len(SelectCards(dom)) :
         /\ SelectCards(dom)[i].checkEl
         /\ ~SelectCards(dom)[i].raises
         /\ HasTitleAndUrl(SelectCards(dom)[i])

\* C3: every activity returned by the primary or the alternative detector
\* has a non-empty url and a title of at least 3 characters, and each
\* detector returns what it would return had the elements with a shorter
\* title or no url not been matched: such an element is skipped.
C3_UrlAndTitle ==
    /\ \A i \in 1..Len(primary) :
         primary[i].url # << >> /\ Len(primary[i].title) >= 3
    /\ \A i \in 1..Len(activities) :
         activities[i].url # << >> /\ Len(activities[i].title) >= 3
    /\ detected =>
         primary = DetectCards(SelectSeq(SelectCards(dom), HasTitleAndUrl))
    /\ altUsed =>
         activities = (IF dom.linksRaise THEN << >>
                       ELSE DetectLinks(SelectSeq(dom.links, LinkHasTitleAndUrl)))

C3_Witness ==
    /\ pc = "list"
    /\ Len(primary) = 1
    /\ Len(primary[1].title) = 3
    /\ \E i \in 1..Len(SelectCards(dom)) :
         /\ ~SelectCards(dom)[i].raises
         /\ Len(ExtractTitle(SelectCards(dom)[i])) = 2
         /\ ExtractUrl(SelectCards(dom)[i]) # << >>

\* C4: whenever the classifier has returned, its result is one of the four
\* types, and it is click_only exactly when no marker of the quiz, poll,
\* trivia and lightspeed groups matches on the page.
C4_ClassifierTotal ==
    atype # "none" =>
        /\ atype \in ActivityTypes
        /\ (atype = "click_only") <=>
              ~(page.quiz \/ page.poll \/ page.trivia \/ page.lightspeed)

C4_Witness == pc = "click_wait" /\ atype = "click_only" /\ page = NoPage

\* C5: the classifier never ends in an error: every activity whose page was
\* reached is given one of the four types, also when a query of the
\* classifier fails.
C5_ClassifierNeverRaises ==
    (idx > 0 /\ pc \in {"tally", "back"} /\ failed # "goto") =>
        atype \in ActivityTypes

\* C6: one handler invocation goes through at most 20 option-click
\* iterations for a quiz, 15 for a trivia and 1 for a poll (none for a
\* click-only page), whatever the page answers.
C6_IterationBounds ==
    /\ optClicks = optRounds \/ optClicks + 1 = optRounds
    /\ atype = "quiz" => optRounds <= 20
    /\ atype = "trivia" => optRounds <= 15
    /\ atype = "poll" => optRounds <= 1
    /\ atype \in {"click_only", "none"} => optRounds = 0

C6_Witness ==
    /\ pc = "tally"
    /\ atype = "quiz"
    /\ optClicks = 20
    /\ missed
    /\ ~sawComplete

\* C7: a quiz or trivia handler whose completion check finds a marker has
\* returned success at that very check, having clicked once per iteration
\* up to it and never after it; one that always found options and never
\* saw a marker returns success after 20 (quiz) or 15 (trivia) iterations.
C7_ReturnOnCompleteOrBound ==
    /\ sawComplete =>
         /\ pc \notin HandlerPcs
         /\ success
         /\ optClicks = q + 1
    /\ (HandlerReturned /\ atype \in {"quiz", "trivia"} /\ failed = "none"
          /\ ~sawComplete /\ ~noOpts) =>
         /\ success
         /\ optClicks = (IF atype = "quiz" THEN 20 ELSE 15)

C7_Witness ==
    /\ pc = "tally"
    /\ atype = "quiz"
    /\ sawComplete
    /\ optClicks = 3

C9_QuizOptionsDisappear ==
    (Len(activities) = 1 /\ atype = "quiz" /\ noOpts /\ failed = "none") =>
        /\ ~sawComplete
        /\ optClicks = optRounds
        /\ optRounds < 20
        /\ success
        /\ Counted => completed = 1
        /\ reported # << >> => reported = << 1, 1 >>

C9_Witness ==
    /\ Len(activities) = 1
    /\ atype = "quiz"
    /\ noOpts
    /\ failed = "none"
    /\ optClicks = 3
    /\ reported = << 1, 1 >>

\* C10: in a run with one detected activity, classified click_only, with no
\* failing call, the handler clicks nothing, waits for the load once,
\* scrolls once and returns success, and the final tally is (1, 1).
C10_ClickOnly ==
    (Len(activities) = 1 /\ HandlerReturned /\ atype = "click_only"
       /\ failed = "none") =>
        /\ optClicks = 0
        /\ startClicks = 0
        /\ waits = 1
        /\ scrolls = 1
        /\ success
        /\ Counted => completed = 1
        /\ reported # << >> => reported = << 1, 1 >>

C10_Witness ==
    /\ Len(activities) = 1
    /\ atype = "click_only"
    /\ failed = "none"
    /\ scrolls = 1
    /\ reported = << 1, 1 >>

\* no handler and no classifier call has been made for the current activity
HandlerUntouched ==
    /\ page = NoPage
    /\ atype = "none"
    /\ q = 0
    /\ optRounds = 0
    /\ optClicks = 0
    /\ startClicks = 0
    /\ waits = 0
    /\ scrolls = 0
    /\ ~sawComplete
    /\ ~noOpts
    /\ ~missed

\* positions between the start of complete_activity and the loop's `continue`
ActivityPcs == HandlerPcs \cup {"act_goto", "classify", "tally", "back"}

\* C11: when the navigation to an activity's URL fails, neither the
\* classifier nor a handler has run for that activity, complete_activity
\* returns False to the loop, the tally line leaves the tally as it is,
\* and the loop goes on with the next activity of the list.
C11_GotoFailureSkips ==
    /\ [](failed = "goto" => HandlerUntouched /\ ~success)
    /\ [][(failed # "goto" /\ failed' = "goto") => pc' = "tally"]_vars
    /\ [][(failed = "goto" /\ pc = "tally") =>
            completed' = completed /\ pc' = "back"]_vars
    /\ [][(failed = "goto" /\ pc = "back" /\ idx < Len(activities)) =>
            pc' = "act_goto" /\ idx' = idx + 1]_vars

C11_Witness ==
    /\ failed = "goto"
    /\ pc = "back"
    /\ idx = 1
    /\ Len(activities) = 2
    /\ completed = 0

\* C12: a Page Driver call that raises out of a handler body or out of
\* complete_activity makes that one activity return False; the tally never
\* decreases and is left alone by the failed activity, the loop goes on
\* with the next activity whatever the outcome, and a loop that reaches the
\* summary has handled every detected activity.
C12_FailureIsLocal ==
    /\ [](failed # "none" => ~success /\ pc \notin HandlerPcs)
    /\ [][completed' >= completed]_vars
    /\ [][(failed # "none" /\ pc = "tally") => completed' = completed]_vars
    /\ [][(pc = "back" /\ idx < Len(activities)) => pc' = "act_goto"]_vars
    /\ []((pc = "summary" /\ ~dryrun) => handled = Len(activities))

C12_Witness ==
    /\ reported = << 1, 2 >>
    /\ handled = 2
    /\ failed = "classify"

\* C13: the loop positions whose processing has started are 1, 2, ..., k for
\* some k up to the length of the detected list (in detection order, none
\* twice), and position k+1 starts only after complete_activity has
\* returned for position k.
C13_InOrderOnce ==
    /\ started = [i \in 1..Len(started) |-> i]
    /\ Len(started) <= Len(activities)
    /\ handled <= Len(started)
    /\ Len(started) <= handled + 1
    /\ pc = "act_goto" => handled = Len(started) /\ idx = Len(started) + 1
    /\ started # << >> => started[Len(started)] <= idx

C13_Witness ==
    /\ ~dryrun
    /\ started = << 1, 2 >>
    /\ handled = 1
    /\ pc \in HandlerPcs

\* C14: in a dry run no activity is started (no navigation to an activity,
\* no classifier call, no handler call), the tally stays 0, and once the
\* list has been reported context.close() is called before the run returns.
C14_DryRunStops ==
    dryrun =>
        /\ started = << >>
        /\ handled = 0
        /\ idx = 0
        /\ pc \notin ActivityPcs
        /\ HandlerUntouched
        /\ completed = 0
        /\ reported # << >> => reported[1] = 0
        /\ (reported # << >> /\ pc = "done") =>
              /\ ctx \in {"closed", "close_failed"}
              /\ ret = Returned(0)

C14_Witness ==
    /\ dryrun
    /\ pc = "done"
    /\ reported = << 0, 2 >>
    /\ ctx = "closed"

\* C15: when no call of _check_login raises, its answer is true if the
\* avatar marker is present; otherwise true if the content holds the
\* rewards keyword and a points keyword; otherwise false exactly when a
\* sign-in affordance is present.  A page with a sign-in affordance, no
\* avatar and no rewards/points content is answered false, and the run
\* waits for the manual login.
C15_LoginGateOrder ==
    (checks # << >> /\ login.raisesAt = 0) =>
        /\ checks[1] =
             (IF login.avatar THEN TRUE
              ELSE IF login.content \in {ContentRewardsPoints, ContentRewardsPoin}
                   THEN TRUE
              ELSE ~login.signIn)
        /\ (login.signIn /\ ~login.avatar
              /\ login.content \in {ContentNone, ContentRewards, ContentPoints}) =>
             checks = << FALSE >> /\ pc = "wait_input"

C15_Witness ==
    /\ checks = << TRUE >>
    /\ login.raisesAt = 0
    /\ ~login.avatar
    /\ login.content = ContentRewardsPoin
    /\ login.signIn

\* C16: when a Page Driver call of _check_login raises, the gate answers
\* true and the run goes on to detection without the manual-login wait.
C16_LoginGateFailsOpen ==
    (checks # << >> /\ LoginRaises(login)) =>
        checks = << TRUE >> /\ pc = "detect"

C16_Witness ==
    /\ checks = << TRUE >>
    /\ pc = "detect"
    /\ login.raisesAt = 3
    /\ ~login.avatar
    /\ login.content = ContentNone
    /\ login.signIn

\* C17: after a negative first check the run does not get past the wait
\* until input() has returned; it then makes exactly one more check, and
\* after a second negative check it neither detects nor starts an activity,
\* calls context.close() and returns 0.
C17_SecondCheckIsFinal ==
    /\ Len(checks) <= 2
    /\ (checks # << >> /\ ~checks[1] /\ ~signalled) =>
          /\ Len(checks) = 1
          /\ ~detected
          /\ pc \in {"wait_input", "fatal", "exit", "exit_raise", "done"}
    /\ Len(checks) = 2 => signalled /\ ~checks[1]
    /\ checks = << FALSE, FALSE >> =>
          /\ ~detected
          /\ ~altUsed
          /\ activities = << >>
          /\ started = << >>
          /\ HandlerUntouched
          /\ pc \in {"close_not_logged_in", "exit_zero", "fatal", "exit", "done"}
          /\ pc # "close_not_logged_in" => ctx \in {"closed", "close_failed"}
          /\ pc = "done" => ret = Returned(0)

C17_Witness ==
    /\ checks = << FALSE, FALSE >>
    /\ signalled
    /\ pc = "done"
    /\ ctx = "closed"
    /\ ret = Returned(0)

\* C18: when detect_activities and _detect_alternative both return an empty
\* list, no activity is started (no navigation, no classifier, no handler),
\* the summary reports (0, 0) and the run returns 0.
C18_NothingDetected ==
    (altUsed /\ activities = << >>) =>
        /\ primary = << >>
        /\ started = << >>
        /\ handled = 0
        /\ idx = 0
        /\ HandlerUntouched
        /\ pc \in {"list", "summary", "close", "fatal", "exit", "done"}
        /\ reported # << >> => reported = << 0, 0 >>
        /\ pc = "done" => ret = Returned(0)

C18_Witness ==
    /\ ~dryrun
    /\ altUsed
    /\ activities = << >>
    /\ reported = << 0, 0 >>
    /\ pc = "done"
    /\ ret = Returned(0)

\* C19: no run ends with a context that was created and is not closed.
C19_ContextClosedOnExit ==
    pc = "done" => ctx \in {"none", "closed"}

\* C20: every run ends by returning an integer to its caller: no exception
\* leaves run_daily_activities.
C20_NeverRaises ==
    pc = "done" => ret.kind = "value"

\* the run took the `except Exception` of run_daily_activities, or returned
\* before the browser was started: it ends with a value and no closed context
EndedFatally == pc = "done" /\ ret.kind = "value" /\ ctx # "closed"

\* C21: every run that ends through a fatal condition (no browser found,
\* two negative login checks, an error caught by the top-level handler)
\* returns 0.
C21_FatalReturnsZero ==
    (EndedFatally \/ (pc = "done" /\ checks = << FALSE, FALSE >>)) =>
        ret = Returned(0)

C26_ClassifierOrder ==
    atype # "none" =>
        /\ page.quiz => atype = "quiz"
        /\ (~page.quiz /\ page.poll) => atype = "poll"
        /\ (~page.quiz /\ ~page.poll /\ page.trivia) => atype = "trivia"
        /\ (~page.quiz /\ ~page.poll /\ ~page.trivia /\ page.lightspeed) =>
              atype = "quiz"

C26_Witness ==
    /\ atype = "quiz"
    /\ page.quiz
    /\ page.trivia
    /\ page.poll
    /\ pc = "quiz_start"

\* C27: in the quiz, poll and trivia handlers a raising option click never
\* is the reason the handler returns failure.
C27_ClickFailureSwallowed ==
    atype \in {"quiz", "poll", "trivia"} => failed # "option_click"

\* C28: after every activity, counted or not, the loop tries the navigation
\* back to the dashboard before the next activity starts; whether that
\* navigation arrives or raises, the tally and the list stay as they are
\* and the loop goes on (to the next activity, or to the summary).
C28_BackNavigationSwallowed ==
    /\ [][pc = "tally" => pc' = "back"]_vars
    /\ [][pc' = "act_goto" => pc \in {"list", "back"}]_vars
    /\ [][pc = "back" =>
            /\ completed' = completed
            /\ activities' = activities
            /\ pc' = (IF idx < Len(activities) THEN "act_goto" ELSE "summary")
            /\ idx' = (IF idx < Len(activities) THEN idx + 1 ELSE idx)]_vars

C28_Witness ==
    /\ backRaised
    /\ pc = "act_goto"
    /\ idx = 2
    /\ completed = 1

\* C29: the primary detector works on the elements of the first strategy
\* (card component, card-like class, task-keyword anchors) that matched any
\* element, and on those alone, also when every one of them is skipped.
C29_FirstStrategyWins ==
    detected =>
        /\ dom.mee # << >> => primary = DetectCards(dom.mee)
        /\ (dom.mee = << >> /\ dom.cardlike # << >>) =>
              primary = DetectCards(dom.cardlike)
        /\ (dom.mee = << >> /\ dom.cardlike = << >>) =>
              primary = DetectCards(dom.anchors)

C29_Witness ==
    /\ detected
    /\ dom.mee # << >>
    /\ dom.cardlike = << GoodCard >>
    /\ primary = << >>
    /\ pc = "detect_alternative"

\* C30: the alternative detector is called exactly when the primary
\* detector returned an empty list, and its result then becomes the list of
\* the run; with a non-empty primary list it is never called.
C30_AlternativeIffEmpty ==
    /\ altUsed =>
          /\ detected
          /\ primary = << >>
          /\ activities = _detect_alternative(dom)
    /\ (detected /\ primary # << >>) =>
          /\ ~altUsed
          /\ pc # "detect_alternative"
          /\ activities = primary
    /\ (detected /\ primary = << >>) => (altUsed \/ pc = "detect_alternative")

C30_Witness ==
    /\ altUsed
    /\ primary = << >>
    /\ Len(activities) = 2
    /\ pc = "list"

\* C23: after an add_search(t) whose save succeeded, is_search_used_recently
\* on the same day answers true for t and for every term that is t after
\* strip and lower, whatever the history file held before.
C23_AddedIsRecent ==
    (hs.at = "done" /\ hs.added = "saved"
       /\ lower(strip(hs.probe)) = lower(strip(hs.term))) =>
        hs.used = "yes"

C23_Witness ==
    /\ hs.at = "done"
    /\ hs.added = "saved"
    /\ hs.used = "yes"
    /\ hs.term = TermTestUpper
    /\ hs.probe = TermTestPadded
    /\ today = SecondToday

\* the keywords of the list that differ after strip and lower
DistinctKeywords ==
    { Normalized(all_keywords(kwcfg)[i]) : i \in 1..Len(all_keywords(kwcfg)) }

\* the first n values of the sequence are pairwise different after strip and lower
UniqueUpTo(out, n) ==
    \A i, j \in 1..n :
        (i < j /\ j <= Len(out)) => Normalized(out[i]) # Normalized(out[j])

C25_SameOrderTwice ==
    (~kwcfg.record
       /\ RecentOf(RecentHistory(file, HistoryDays, today))
            = RecentOf(RecentHistory(kwcfg.file0, HistoryDays, today))) =>
        \A n \in 1..MaxDraws :
            (n <= Len(gens[1].out) /\ n <= Len(gens[2].out)) =>
                gens[1].out[n] = gens[2].out[n]

C25_Witness ==
    /\ ~kwcfg.record
    /\ Len(gens[1].out) = 4
    /\ Len(gens[2].out) = 4
    /\ gens[1].out = gens[2].out
    /\ gens[1].stage = "again"
    /\ gens[1].recent # {}
    /\ kwcfg.first # kwcfg.second

-----------------------------------------------------------------------------
(* Claims C31 to C40 *)

\* the matched elements whose extraction does not raise, in document order
WithoutRaising(elems) ==
    LET Quiet(e) == ~e.raises IN SelectSeq(elems, Quiet)

\* C31: an extraction error on one matched element skips that element alone:
\* the primary detector returns what it would return if the failing cards
\* were absent from the matched list, and so does the alternative detector
\* for the failing hyperlinks, whenever its query for the links itself
\* succeeded.
C31_FailingElementSkipped ==
    /\ detected =>
          primary = DetectCards(WithoutRaising(SelectCards(dom)))
    /\ (altUsed /\ ~dom.linksRaise) =>
          activities = DetectLinks(WithoutRaising(dom.links))

C31_Witness ==
    /\ detected
    /\ Len(SelectCards(dom)) = 2
    /\ SelectCards(dom)[1].raises
    /\ ~SelectCards(dom)[2].raises
    /\ Len(primary) = 1
    /\ primary[1].url = UrlQuiz

\* the hyperlinks the alternative detector is said to keep
KeptLink(link) ==
    LET text == strip(link.text)
        href == OrEmpty(link.href)
    IN  /\ Len(text) >= 5
        /\ Len(text) <= 200
        /\ href # << >>
        /\ \E ind \in reward_indicators :
              contains(lower(text), ind) \/ contains(lower(href), ind)

\* the whitespace-delimited tokens of the form "+" digits
PlusTokens(text) ==
    LET PlusDigits(word) ==
            /\ Len(word) >= 2
            /\ word[1] = "+"
            /\ \A i \in 2..Len(word) : word[i] \in Digits
    IN  SelectSeq(split(text), PlusDigits)

\* C32: the alternative detector keeps a hyperlink exactly when its trimmed
\* text has 5 to 200 characters, its href is not empty and its text or href
\* contains a keyword; the points label of a kept link is the first
\* whitespace-delimited token "+" digits of its text, or empty without one.
C32_AlternativeKeeps ==
    (altUsed /\ ~dom.linksRaise) =>
        LET kept == SelectSeq(WithoutRaising(dom.links), KeptLink)
        IN  /\ Len(activities) = Len(kept)
            /\ \A i \in 1..Len(kept) :
                 LET tokens == PlusTokens(strip(kept[i].text))
                 IN  /\ activities[i].url = kept[i].href
                     /\ activities[i].points =
                          (IF tokens = << >> THEN << >> ELSE Head(tokens))

C32_Witness ==
    /\ altUsed
    /\ Len(dom.links) = 2
    /\ dom.links[1].text = TxtQuiz201
    /\ dom.links[2].text = TxtSecondPts
    /\ Len(activities) = 1
    /\ activities[1].points = <<"+","3","0">>

\* C36: handle_poll returns true exactly when an option element was found
\* and its one click did not raise; when no option is found, or a query or
\* the click raises, it returns false; it clicks at most once and never
\* queries a completion marker.
C36_PollReturn ==
    atype = "poll" =>
        /\ optClicks <= 1
        /\ optClicks <= optRounds
        /\ q = 0
        /\ ~sawComplete
        /\ pc \in HandlerPcs => pc \in {"poll_options", "poll_click"}
        /\ HandlerReturned =>
              success = (optRounds = 1 /\ optClicks = 1 /\ failed = "none")

C36_Witness ==
    /\ atype = "poll"
    /\ pc = "tally"
    /\ success
    /\ optRounds = 1
    /\ optClicks = 1

\* C37: the start click of the quiz handler is issued at most once, before
\* any option click, so that one invocation issues at most QuizMax + 1
\* clicks; a raising start click makes the handler return false with no
\* option click attempted.
C37_StartClick ==
    /\ startClicks <= 1
    /\ startClicks > 0 => atype = "quiz"
    /\ pc = "quiz_start" => (startClicks = 0 /\ optClicks = 0 /\ optRounds = 0)
    /\ startClicks + optClicks <= QuizMax + 1
    /\ failed = "start_click" =>
          /\ startClicks = 1
          /\ optClicks = 0
          /\ optRounds = 0
          /\ pc \notin HandlerPcs
          /\ ~success

C37_Witness ==
    /\ atype = "quiz"
    /\ failed = "start_click"
    /\ pc = "tally"
    /\ startClicks = 1
    /\ optClicks = 0
    /\ ~success

\* the positions of a run from detection to the end of the activity loop
GatedPcs ==
    ActivityPcs \cup {"detect", "detect_alternative", "list", "summary"}

\* C38: detection, the navigation to an activity and every handler dispatch
\* happen only after a login check of the run has answered true, the first
\* or the one after the manual-continue signal; a run whose last login check
\* was negative detects nothing and starts no activity.
C38_GatedByLogin ==
    /\ Len(checks) <= 2
    /\ Len(checks) = 2 => (~checks[1] /\ signalled)
    /\ (pc \in GatedPcs \/ detected \/ started # << >> \/ atype # "none") =>
          (checks # << >> /\ checks[Len(checks)])
    /\ (checks # << >> /\ ~checks[Len(checks)]) =>
          /\ ~detected
          /\ activities = << >>
          /\ started = << >>
          /\ handled = 0
          /\ atype = "none"

C38_Witness ==
    /\ checks = << FALSE, TRUE >>
    /\ signalled
    /\ started = << 1 >>
    /\ pc = "poll_click"

\* C39: when every pending Page Driver call eventually returns or raises and
\* the awaited manual-continue signal eventually arrives, every run of
\* run_daily_activities ends; from the start of the activity loop on the
\* list of activities does not change.
C39_Terminates ==
    /\ <>(pc = "done")
    /\ [][(pc \in ActivityPcs) => (activities' = activities)]_vars

C39_Witness ==
    /\ pc = "done"
    /\ signalled
    /\ started = << 1, 2 >>
    /\ handled = 2
    /\ ret.kind = "value"

\* the date keys of the n calendar days that end on the given day
LastDays(n, day) == { isoformat(day - a) : a \in 0..(n - 1) }

\* C34: cleanup_old_history(history, days) keeps `days` days of history: the
\* date keys it retains lie within the `days` calendar days ending today,
\* every older entry is removed, and every retained entry keeps its list.
C34_KeepsDays ==
    hs.at # "get_recent_searches" =>
        /\ DOMAIN hs.cleaned = (DOMAIN hs.orig) \cap LastDays(hs.days, today)
        /\ Cardinality(DOMAIN hs.cleaned) <= hs.days
        /\ \A k \in DOMAIN hs.cleaned : hs.cleaned[k] = hs.orig[k]

\* the date keys from today - n to today, the window a lookup of n days
\* compares with
WithinWindow(n, day) == { isoformat(day - a) : a \in 0..n }

\* C40: a lookup is not read-only: get_recent_searches(days), when its save
\* succeeds, leaves a file that holds the entries of its window unchanged and
\* none of the older ones; a later is_search_used_recently(probe, 7) then
\* answers from the entries the first window kept, and no longer reports a
\* term that only the pruned entries held.
C40_LookupPrunes ==
    /\ (hs.at = "is_search_used_recently" /\ hs.saved) =>
          /\ file.readable
          /\ DOMAIN file.data = (DOMAIN hs.orig) \cap WithinWindow(hs.days, today)
          /\ \A k \in DOMAIN file.data : file.data[k] = hs.orig[k]
    /\ (hs.at = "done" /\ hs.saved) =>
          (hs.used = "yes") =
             (\E k \in (DOMAIN hs.orig) \cap WithinWindow(hs.days, today) :
                 InList(lower(strip(hs.probe)), hs.orig[k]))

C40_Witness ==
    /\ hs.at = "done"
    /\ hs.saved
    /\ hs.days = 1
    /\ hs.probe = TermTestWide
    /\ isoformat(today - 2) \in DOMAIN hs.orig
    /\ hs.orig[isoformat(today - 2)] = << TermTestWide, TermTestLower >>
    /\ hs.used = "no"
    /\ file.readable
    /\ isoformat(today - 2) \notin DOMAIN file.data

\* the keywords of the list, after strip and lower, that the history read at
\* the start of generator g does not hold
UnusedKeywords(g) == DistinctKeywords \ gens[g].recent

\* C33: the generator filters by the 7-day history it read when it started:
\* as long as it has yielded fewer values than it has unused keywords, what
\* it yields is not in that history; a keyword of the history is yielded
\* only after every unused keyword has been yielded.  The history of the
\* recording generator is that of the file it found.
C33_RecentLast ==
    /\ \A g \in Generators :
          \A i \in 1..Len(gens[g].out) :
             /\ i <= Cardinality(UnusedKeywords(g)) =>
                   Normalized(gens[g].out[i]) \notin gens[g].recent
             /\ Normalized(gens[g].out[i]) \in gens[g].recent =>
                   UnusedKeywords(g) \subseteq
                      { Normalized(gens[g].out[j]) : j \in 1..(i - 1) }
    /\ (kwcfg.record /\ gens[1].stage # "new") =>
          gens[1].recent = RecentOf(cleanup_old_history(load_history(kwcfg.file0),
                                                        HistoryDays, today))

C33_Witness ==
    /\ kwcfg.record
    /\ Len(gens[1].out) = 3
    /\ Cardinality(UnusedKeywords(1)) = 2
    /\ Normalized(gens[1].out[1]) \notin gens[1].recent
    /\ Normalized(gens[1].out[2]) \notin gens[1].recent
    /\ Normalized(gens[1].out[3]) \in gens[1].recent

\* C35: in a call without dryrun, account_selection returns success only
\* when the browser process it opened has terminated; ENTER typed while the
\* process still runs is refused and the prompt is shown again; 'exit'
\* returns (False, False, '') after close_browser was called on the process.
C35_SuccessAfterBrowserExit ==
    /\ [](~acct.dry =>
            /\ acct.ret = "true" => acct.browser = "terminated"
            /\ acct.how = "exit" => (acct.ret = "false" /\ acct.closeCalled))
    /\ [][(/\ ~acct.dry
           /\ acct.at = "prompt"
           /\ acct.browser = "running"
           /\ acct'.prompts = acct.prompts + 1
           /\ acct'.event = "line"
           /\ IsEnter(acct'.last))
          => (/\ acct'.at = "prompt"
              /\ acct'.ret = "none"
              /\ acct'.refused = acct.refused + 1)]_vars

C35_Witness ==
    /\ ~acct.dry
    /\ acct.ret = "true"
    /\ acct.how = "enter"
    /\ acct.refused = 1
    /\ acct.prompts = 2
    /\ acct.last = LineEnterWord
    /\ acct.browser = "terminated"

=============================================================================
